---- MODULE Spec2Model ----
(***************************************************************************)
(* A model of gobuildcache: the local disk store (localCache), the locking *)
(* groups (NoOpGroup, MemLock) and the GOCACHEPROG protocol engine         *)
(* (CacheProg).                                                            *)
(*                                                                         *)
(* The file system is modelled at the level of the system calls the code   *)
(* makes: a directory maps paths to files (inodes), an open file keeps     *)
(* referring to its inode whatever the directory does afterwards, rename   *)
(* and unlink are atomic, and a write changes the inode it was opened on.  *)
(***************************************************************************)
EXTENDS Integers, Sequences, FiniteSets, TLC

\* ------------------------------------------------------------------------
\* Bounds and input sets
\* ------------------------------------------------------------------------

\* The number of inbound lines the caller sends before it closes the stream.
MaxLines == 3

\* The number of injected system-call failures (disk errors) in one run.
MaxFaults == 1

Writers == {"w1", "w2"}
Readers == {"r1"}
Procs == Writers \cup Readers

\* ActionIDs are byte strings; both lie in shard directory 01.
ActionIDs == {<<1>>, <<1, 35>>}
\* The inputs of a Put: OutputID (a byte string; the empty one is what an
\* omitted OutputID of a request decodes to), body (a byte string, written
\* one byte per write call), Size and PutTime (seconds and nanoseconds).
PutInputs ==
    { [OutputID |-> <<171>>, Body |-> <<7, 8>>, Size |-> 2, PutTime |-> [sec |-> 4, nsec |-> 3]],
      [OutputID |-> <<205>>, Body |-> <<9, 6>>, Size |-> 5, PutTime |-> [sec |-> 4, nsec |-> 3]],
      [OutputID |-> <<>>, Body |-> <<7, 8>>, Size |-> 2, PutTime |-> [sec |-> 4, nsec |-> 3]] }
Bodies == {i.Body : i \in PutInputs}

Groups == {"NoOp", "MemLock"}

Nil == "nil"
\* No inode: the empty tuple (an inode is a pair).
NoFile == <<>>
NoProc == "noproc"
NoMutex == "nomutex"

\* ------------------------------------------------------------------------
\* Pure functions of the local store
\* ------------------------------------------------------------------------

fileFormatVersion == "v"

\* hex.EncodeToString: two hex digits (0..15) per byte, high digit first.
HexEncode(b) ==
    [i \in 1..(2 * Len(b)) |->
        IF i % 2 = 1 THEN b[(i + 1) \div 2] \div 16 ELSE b[i \div 2] % 16]

\* hex.DecodeString: an odd number of digits or a non-digit is an error.
HexDecode(h) ==
    IF Len(h) % 2 = 1 \/ \E i \in 1..Len(h) : h[i] \notin 0..15
    THEN [err |-> "hex", val |-> <<>>]
    ELSE [err |-> Nil,
          val |-> [i \in 1..(Len(h) \div 2) |-> 16 * h[2 * i - 1] + h[2 * i]]]

\* hexActionID[:2]: the first two digits; a run-time panic (slice bounds out
\* of range) when there are fewer than two.
HexPrefix(h) ==
    IF Len(h) < 2 THEN [panic |-> TRUE, v |-> <<>>]
    ELSE [panic |-> FALSE, v |-> SubSeq(h, 1, 2)]

\* The shard directories newLocalCache creates: "%02x" of 0..255.
ShardDirs == {HexEncode(<<i>>) : i \in 0..255}

\* A path is the shard directory and the file name, the name being the
\* format version, the hex digits of the ActionID, then the suffixes appended.
actionIDToPath(a) ==
    [dir |-> HexPrefix(HexEncode(a)).v,
     ver |-> fileFormatVersion,
     hex |-> HexEncode(a),
     ext |-> <<>>]

Suffixed(p, s) == [p EXCEPT !.ext = Append(@, s)]

NoPath == [dir |-> <<>>, ver |-> "", hex |-> <<>>, ext |-> <<>>]

metadataPath(a) == Suffixed(actionIDToPath(a), ".meta")

bodyTmpPath(a) == Suffixed(actionIDToPath(a), ".tmp")

metaTmpPath(a) == Suffixed(metadataPath(a), ".tmp")

Paths ==
    UNION {{actionIDToPath(a), bodyTmpPath(a), metadataPath(a), metaTmpPath(a)} :
           a \in ActionIDs}

\* The metadata record as text: three lines, each a prefix and what
\* fmt.Sprintf prints after it.
FormatMeta(m) ==
    << [k |-> "outputID:", v |-> HexEncode(m.OutputID)],
       [k |-> "size:", v |-> <<m.Size>>],
       [k |-> "time:", v |-> <<m.PutTime.sec>>] >>

\* What the parse loop has scanned into a variable: each line with the prefix
\* is scanned in turn, and a scan that reads something overwrites what was
\* read before. Sscanf reads nothing from an empty rest of line. The result
\* is <<>> when nothing was read: the variable keeps its zero value.
RECURSIVE ScanLines(_, _, _)
ScanLines(lines, prefix, cur) ==
    IF lines = <<>> THEN cur
    ELSE LET l == Head(lines)
             nxt == IF l.k = prefix /\ l.v # <<>> THEN l.v ELSE cur
         IN ScanLines(Tail(lines), prefix, nxt)

NoMeta == [OutputID |-> <<>>, Size |-> 0, PutTime |-> [sec |-> 0, nsec |-> 0]]

\* readMetadata on the content of the metadata file.
ParseMeta(content) ==
    LET outputIDHex == ScanLines(content, "outputID:", <<>>)
        sizeRead == ScanLines(content, "size:", <<>>)
        timeRead == ScanLines(content, "time:", <<>>)
        size == IF sizeRead = <<>> THEN 0 ELSE sizeRead[1]
        putTimeUnix == IF timeRead = <<>> THEN 0 ELSE timeRead[1]
        dec == HexDecode(outputIDHex)
    IN IF outputIDHex = <<>> THEN [err |-> "missing outputID", meta |-> NoMeta]
       ELSE IF dec.err # Nil THEN [err |-> "decode outputID", meta |-> NoMeta]
       ELSE [err |-> Nil,
             meta |-> [OutputID |-> dec.val, Size |-> size,
                       PutTime |-> [sec |-> putTimeUnix, nsec |-> 0]]]

\* ------------------------------------------------------------------------
\* State
\* ------------------------------------------------------------------------

VARIABLES
    group,      \* the locking group the writers use
    dirent,     \* the directory: path -> inode, or NoFile
    data,       \* inode -> content
    fd,         \* process -> the inode of its open file, or NoFile
    pc,         \* process -> its position in the code
    args,       \* process -> the arguments of its call
    off,        \* writer -> bytes of the body copied so far
    werr,       \* writer -> the error of write(), or Nil
    merr,       \* writer -> the error of writeMetadata(), or Nil
    fnret,      \* writer -> what fn returned to DoWithLock
    ret,        \* writer -> what DoWithLock returned
    res,        \* reader -> what check returned
    warn,       \* reader -> the warning check logged
    rbody,      \* reader -> the body read at the returned disk path
    mapMutex,   \* MemLock's own mutex: its holder, or NoProc
    locks,      \* MemLock.locks: key -> mutex, or NoMutex
    holder,     \* mutex -> its holder, or NoProc
    lk,         \* writer -> the mutex it looked up or created
    faults,     \* injected failures so far
    runs,       \* writer -> how many times its fn was called
    prior,      \* writer -> the writers that had returned when its Put began
    epc,        \* the protocol engine's position in Run
    nread,      \* inbound lines scanned so far
    line,       \* the text of the last line scanned
    scan,       \* the scanner: "ok", "eof" at the end of the stream, "err" after a read error
    req,        \* the request ReadRequest is building or has returned
    resp,       \* the response HandleRequest has built
    out,        \* the outbound lines written and flushed, in order
    calls,      \* the Backend calls made, in order
    reqs,       \* the IDs of the requests ReadRequest returned, in order
    runRet,     \* what Run returned (Nil or the error), or "running"
    before,     \* writer -> what check returned for its key when its Put began
    dcalls,     \* the calls made on the Debug decorator, in order
    bcalls,     \* the calls the wrapped backend received, in order
    brets,      \* what the wrapped backend returned, in order
    drets,      \* what the Debug decorator returned, in order
    mu,         \* LatencyTracker.mu: its holder, or NoProc
    sketches,   \* LatencyTracker.sketches: label -> sketch
    mpc,        \* tracker caller -> its position in the code
    mloc,       \* tracker caller -> the arguments and locals of its call
    mret,       \* tracker caller -> what its call returned, until its next call
    nrec,       \* label -> the Record calls that have returned
    pin,        \* the ActionIDs handed to actionIDToPath
    pout        \* what actionIDToPath and metadataPath gave for them

vars == <<group, dirent, data, fd, pc, args, off, werr, merr, fnret, ret,
          res, warn, rbody, mapMutex, locks, holder, lk, faults, runs, prior,
          epc, nread, line, scan, req, resp, out, calls, reqs, runRet,
          before, dcalls, bcalls, brets, drets,
          mu, sketches, mpc, mloc, mret, nrec, pin, pout>>

fsVars == <<dirent, data, fd>>
lockVars == <<mapMutex, locks, holder, lk>>
readerVars == <<res, warn, rbody>>
engineVars == <<epc, nread, line, scan, req, resp, out, calls, reqs, runRet>>
storeVars == <<group, dirent, data, fd, pc, args, off, werr, merr, fnret, ret,
               res, warn, rbody, mapMutex, locks, holder, lk, faults, runs, prior,
               before>>
\* The Debug decorator, the latency tracker and the path function: what the
\* local store and the protocol engine never touch.
auxVars == <<dcalls, bcalls, brets, drets, mu, sketches, mpc, mloc, mret, nrec, pin, pout>>

\* Inodes are named after the writer and the call that created them.
Inodes == Writers \X {"body", "meta"}
Mutexes == Writers

NoArgs == [ActionID |-> <<>>, OutputID |-> <<>>, Body |-> <<>>, Size |-> 0,
           PutTime |-> [sec |-> 0, nsec |-> 0]]
NoRet == [v |-> NoPath, err |-> Nil]
Miss == [hit |-> FALSE, meta |-> NoMeta]
NoBody == [exists |-> FALSE, content |-> <<>>]

\* ------------------------------------------------------------------------
\* The protocol engine: values
\* ------------------------------------------------------------------------

CmdPut == "put"
CmdGet == "get"
CmdClose == "close"

NoTime == "nil"
NoReader == [present |-> FALSE, bytes |-> <<>>]

\* The zero Request and the zero Response.
ZeroRequest == [ID |-> 0, Command |-> "", ActionID |-> <<>>, OutputID |-> <<>>,
                Body |-> NoReader, BodySize |-> 0]
ZeroResponse == [ID |-> 0, Err |-> "", KnownCommands |-> <<>>, Miss |-> FALSE,
                 OutputID |-> <<>>, Size |-> 0, Time |-> NoTime, DiskPath |-> ""]

\* The inbound lines the caller may send. An object line is a JSON object
\* with the fields of a Request; a string line is a JSON string literal, its
\* text either the base64 encoding of some bytes or not base64 at all; a
\* null line is the JSON null; a garbage line is not JSON; a blank line is
\* empty or white space.
ReqIDs == {0, 1}
Commands == {CmdPut, CmdGet, CmdClose, "bogus"}
BodySizes == {0, 2}
Line(kind, id, cmd, n, wf, bytes) ==
    [kind |-> kind, ID |-> id, Command |-> cmd, BodySize |-> n, wf |-> wf, bytes |-> bytes]
ObjectLines == {Line("object", i, c, n, TRUE, <<>>) : i \in ReqIDs, c \in Commands, n \in BodySizes}
StringLines == {Line("string", 0, "", 0, TRUE, <<7, 8>>), Line("string", 0, "", 0, TRUE, <<7>>),
                Line("string", 0, "", 0, FALSE, <<>>)}
BlankLine == Line("blank", 0, "", 0, TRUE, <<>>)
SpacesLine == Line("spaces", 0, "", 0, TRUE, <<>>)
GarbageLine == Line("garbage", 0, "", 0, TRUE, <<>>)
NullLine == Line("null", 0, "", 0, TRUE, <<>>)
Lines == ObjectLines \cup StringLines \cup {BlankLine, SpacesLine, GarbageLine, NullLine}

\* What the Backend may return.
PutResults == {[diskPath |-> "/cache/01/v01", err |-> Nil],
               [diskPath |-> "", err |-> "put failed"]}
GetResults ==
    {[outputID |-> <<171>>, diskPath |-> "/cache/01/v01", size |-> 2, putTime |-> "t1",
      miss |-> FALSE, err |-> Nil],
     [outputID |-> <<>>, diskPath |-> "", size |-> 0, putTime |-> NoTime,
      miss |-> TRUE, err |-> Nil],
     [outputID |-> <<171>>, diskPath |-> "/cache/01/v01", size |-> 2, putTime |-> "t1",
      miss |-> TRUE, err |-> Nil],
     [outputID |-> <<>>, diskPath |-> "", size |-> 0, putTime |-> NoTime,
      miss |-> FALSE, err |-> "get failed"]}
CloseResults == {Nil, "close failed"}

\* json.Unmarshal(line, &req): an object sets the fields it has, null
\* leaves the Request zero, anything else is an error.
UnmarshalRequest(l) ==
    IF l.kind = "object"
    THEN [err |-> Nil,
          req |-> [ZeroRequest EXCEPT !.ID = l.ID, !.Command = l.Command,
                                      !.ActionID = <<1>>, !.BodySize = l.BodySize]]
    ELSE IF l.kind = "null" THEN [err |-> Nil, req |-> ZeroRequest]
    ELSE [err |-> "unmarshal request", req |-> ZeroRequest]

\* json.Unmarshal(bodyLine, &base64Str), then base64.StdEncoding.DecodeString:
\* a string literal gives its text, null leaves the empty text (which decodes
\* to no bytes), anything else is an error; text that is not base64 is an
\* error.
DecodeBody(l) ==
    IF l.kind = "null" THEN [err |-> Nil, bytes |-> <<>>]
    ELSE IF l.kind # "string" THEN [err |-> "unmarshal body", bytes |-> <<>>]
    ELSE IF ~l.wf THEN [err |-> "decode base64", bytes |-> <<>>]
    ELSE [err |-> Nil, bytes |-> l.bytes]

\* json.Marshal(resp): a field with omitempty is left out of the line when it
\* has its zero value. A line is the fields present and their values.
ResponseFields == {"ID", "Err", "KnownCommands", "Miss", "OutputID", "Size", "Time", "DiskPath"}
Marshal(r) ==
    [present |-> {f \in ResponseFields :
                     \/ f = "ID" /\ r.ID # 0
                     \/ f = "Err" /\ r.Err # ""
                     \/ f = "KnownCommands" /\ r.KnownCommands # <<>>
                     \/ f = "Miss" /\ r.Miss
                     \/ f = "OutputID" /\ r.OutputID # <<>>
                     \/ f = "Size" /\ r.Size # 0
                     \/ f = "Time" /\ r.Time # NoTime
                     \/ f = "DiskPath" /\ r.DiskPath # ""},
     v |-> r]

\* The engine before Run is called.
EngineInit ==
    /\ epc = "start"
    /\ nread = 0
    /\ line = BlankLine
    /\ scan = "ok"
    /\ req = ZeroRequest
    /\ resp = ZeroResponse
    /\ out = <<>>
    /\ calls = <<>>
    /\ reqs = <<>>
    /\ runRet = "running"

\* No engine: the local store is used on its own.
EngineIdle ==
    /\ epc = "none"
    /\ nread = 0
    /\ line = BlankLine
    /\ scan = "ok"
    /\ req = ZeroRequest
    /\ resp = ZeroResponse
    /\ out = <<>>
    /\ calls = <<>>
    /\ reqs = <<>>
    /\ runRet = "running"

\* ------------------------------------------------------------------------
\* The Debug decorator, the latency tracker, the path function: values
\* ------------------------------------------------------------------------

MThreads == {"t1", "t2"}
Labels == {"get", "put"}
NoSketch == [exists |-> FALSE, count |-> 0]
\* The arguments, locals and results of a call on the tracker.
NoLoc == [op |-> "", label |-> "", inner |-> FALSE, exists |-> FALSE,
          started |-> {}, visited |-> {}, stats |-> <<>>, stat |-> [Operation |-> "", Count |-> 0],
          err |-> Nil, val |-> 0, fnruns |-> 0, result |-> 0, fnerr |-> Nil,
          added |-> <<>>]

\* NewDebug and NewLatencyTracker (an empty map, the mutex free), no call
\* begun; no ActionID handed to the path function.
AuxIdle ==
    /\ dcalls = <<>>
    /\ bcalls = <<>>
    /\ brets = <<>>
    /\ drets = <<>>
    /\ mu = NoProc
    /\ sketches = [l \in Labels |-> NoSketch]
    /\ mpc = [t \in MThreads |-> "idle"]
    /\ mloc = [t \in MThreads |-> NoLoc]
    /\ mret = [t \in MThreads |-> NoLoc]
    /\ nrec = [l \in Labels |-> 0]
    /\ pin = <<>>
    /\ pout = <<>>

\* No call has begun.
ProcInit ==
    /\ fd = [p \in Procs |-> NoFile]
    /\ pc = [p \in Procs |-> "idle"]
    /\ args = [p \in Procs |-> NoArgs]
    /\ off = [w \in Writers |-> 0]
    /\ werr = [w \in Writers |-> Nil]
    /\ merr = [w \in Writers |-> Nil]
    /\ fnret = [w \in Writers |-> NoRet]
    /\ ret = [w \in Writers |-> NoRet]
    /\ res = [r \in Readers |-> Miss]
    /\ warn = [r \in Readers |-> Nil]
    /\ rbody = [r \in Readers |-> NoBody]
    /\ mapMutex = NoProc
    /\ locks = [a \in ActionIDs |-> NoMutex]
    /\ holder = [m \in Mutexes |-> NoProc]
    /\ lk = [w \in Writers |-> NoMutex]
    /\ faults = 0
    /\ runs = [w \in Writers |-> 0]
    /\ prior = [w \in Writers |-> {}]
    /\ before = [w \in Writers |-> [body |-> NoBody, meta |-> NoBody]]

\* The store as newLocalCache leaves it in a new cache directory (the shard
\* directories exist, no file does), with no call begun.
StoreInit ==
    /\ dirent = [p \in Paths |-> NoFile]
    /\ data = [i \in Inodes |-> <<>>]
    /\ ProcInit

Init ==
    /\ group \in Groups
    /\ StoreInit
    /\ EngineIdle
    /\ AuxIdle

\* ------------------------------------------------------------------------
\* The file system
\* ------------------------------------------------------------------------

Referenced(d, f, i) ==
    (\E p \in Paths : d[p] = i) \/ (\E q \in Procs : f[q] = i)

\* An inode nothing refers to any more is gone; its content is forgotten.
Collect(d, f, dt) ==
    [i \in Inodes |-> IF Referenced(d, f, i) THEN dt[i] ELSE <<>>]

\* write(2) of one unit at offset o (0-based): overwrites, appends, or
\* leaves a hole of zeros when the file was truncated under the writer.
WriteAt(c, o, b) ==
    IF o < Len(c) THEN [c EXCEPT ![o + 1] = b]
    ELSE c \o [i \in 1..(o - Len(c)) |-> 0] \o <<b>>

\* write(2) of a whole content at offset 0.
WriteAll(c, new) ==
    new \o SubSeq(c, Len(new) + 1, Len(c))

\* open(2) with O_CREATE|O_TRUNC by process w: an existing file is truncated
\* in place; otherwise a new inode is linked at the path.
OpenTrunc(w, path, kind) ==
    LET i == IF dirent[path] = NoFile THEN <<w, kind>> ELSE dirent[path]
    IN /\ dirent' = [dirent EXCEPT ![path] = i]
       /\ data' = [data EXCEPT ![i] = <<>>]
       /\ fd' = [fd EXCEPT ![w] = i]

\* rename(2), for a source that exists: the target's old inode is unlinked.
Rename(from, to) ==
    LET d == [dirent EXCEPT ![to] = dirent[from], ![from] = NoFile]
    IN /\ dirent' = d
       /\ data' = Collect(d, fd, data)
       /\ fd' = fd

\* unlink(2); an absent path is an error the code ignores.
Remove(path) ==
    LET d == [dirent EXCEPT ![path] = NoFile]
    IN /\ dirent' = d
       /\ data' = Collect(d, fd, data)
       /\ fd' = fd

\* close(2) by process w.
Close(w) ==
    LET f == [fd EXCEPT ![w] = NoFile]
    IN /\ fd' = f
       /\ data' = Collect(dirent, f, data)
       /\ dirent' = dirent

\* os.ReadFile and os.Stat read the directory and the inode as they are.
Exists(path) == dirent[path] # NoFile
Content(path) == data[dirent[path]]

\* The final body file and the final .meta file of an ActionID, as they are.
Snapshot(a) ==
    [body |-> IF Exists(actionIDToPath(a))
              THEN [exists |-> TRUE, content |-> Content(actionIDToPath(a))] ELSE NoBody,
     meta |-> IF Exists(metadataPath(a))
              THEN [exists |-> TRUE, content |-> Content(metadataPath(a))] ELSE NoBody]

CanFail == faults < MaxFaults
Fault == faults' = faults + 1
NoFault == faults' = faults

\* ------------------------------------------------------------------------
\* localCache.write, writeMetadata, writeWithMetadata (the fn of a Put)
\* ------------------------------------------------------------------------

Meta(w) == [OutputID |-> args[w].OutputID, Size |-> args[w].Size,
            PutTime |-> args[w].PutTime]

\* fn returns (v, e) to DoWithLock.
FnReturn(w, v, e) ==
    /\ fnret' = [fnret EXCEPT ![w] = [v |-> v, err |-> e]]
    /\ pc' = [pc EXCEPT ![w] = "dl_ret"]

\* os.Create on the final path instead of the temp path.
WCreate_InPlace(w) ==
    /\ pc[w] = "w_create"
    /\ \/ /\ OpenTrunc(w, actionIDToPath(args[w].ActionID), "body")
          /\ pc' = [pc EXCEPT ![w] = IF args[w].Body = <<>> THEN "w_close" ELSE "w_copy"]
          /\ NoFault
          /\ UNCHANGED <<werr, fnret>>
       \/ /\ CanFail /\ Fault
          /\ werr' = [werr EXCEPT ![w] = "create temp file"]
          /\ FnReturn(w, NoPath, "create temp file")
          /\ UNCHANGED fsVars
    /\ UNCHANGED <<engineVars, auxVars, runs, prior, before, group, args, off, merr, ret, readerVars, lockVars>>

\* os.Create(tmpPath)
WCreate(w) ==
    /\ pc[w] = "w_create"
    /\ \/ /\ OpenTrunc(w, bodyTmpPath(args[w].ActionID), "body")
          /\ pc' = [pc EXCEPT ![w] = IF args[w].Body = <<>> THEN "w_close" ELSE "w_copy"]
          /\ NoFault
          /\ UNCHANGED <<werr, fnret>>
       \/ /\ CanFail /\ Fault
          /\ werr' = [werr EXCEPT ![w] = "create temp file"]
          /\ FnReturn(w, NoPath, "create temp file")
          /\ UNCHANGED fsVars
    /\ UNCHANGED <<engineVars, auxVars, runs, prior, before, group, args, off, merr, ret, readerVars, lockVars>>

\* io.Copy(tmpFile, body), one write call per byte
WCopy(w) ==
    /\ pc[w] = "w_copy"
    /\ \/ /\ data' = [data EXCEPT ![fd[w]] = WriteAt(@, off[w], args[w].Body[off[w] + 1])]
          /\ off' = [off EXCEPT ![w] = @ + 1]
          /\ pc' = [pc EXCEPT ![w] = IF off[w] + 1 = Len(args[w].Body) THEN "w_close" ELSE "w_copy"]
          /\ NoFault
          /\ UNCHANGED werr
       \/ /\ CanFail /\ Fault
          /\ werr' = [werr EXCEPT ![w] = "write to temp file"]
          /\ pc' = [pc EXCEPT ![w] = "w_close"]
          /\ UNCHANGED <<data, off>>
    /\ UNCHANGED <<engineVars, auxVars, runs, prior, before, group, dirent, fd, args, merr, fnret, ret, readerVars, lockVars>>

\* closeErr := tmpFile.Close(); the copy error is returned first
WClose(w) ==
    /\ pc[w] = "w_close"
    /\ Close(w)
    /\ \/ /\ NoFault
          /\ UNCHANGED werr
          /\ pc' = [pc EXCEPT ![w] = IF werr[w] # Nil THEN "w_remove" ELSE "w_rename"]
       \/ /\ CanFail /\ Fault
          /\ werr' = [werr EXCEPT ![w] = IF @ # Nil THEN @ ELSE "close temp file"]
          /\ pc' = [pc EXCEPT ![w] = "w_remove"]
    /\ UNCHANGED <<engineVars, auxVars, runs, prior, before, group, args, off, merr, fnret, ret, readerVars, lockVars>>

\* WRename that removes the file at diskPath before it renames, the rename
\* then failing.
WRename_RemoveFirst(w) ==
    /\ pc[w] = "w_rename"
    /\ pc' = [pc EXCEPT ![w] = "w_remove"]
    /\ \/ /\ Exists(bodyTmpPath(args[w].ActionID))
          /\ Rename(bodyTmpPath(args[w].ActionID), actionIDToPath(args[w].ActionID))
          /\ NoFault
          /\ UNCHANGED werr
       \/ /\ ~Exists(bodyTmpPath(args[w].ActionID))
          /\ werr' = [werr EXCEPT ![w] = "rename cache file"]
          /\ NoFault
          /\ UNCHANGED fsVars
       \/ /\ CanFail /\ Fault
          /\ werr' = [werr EXCEPT ![w] = "rename cache file"]
          /\ Remove(actionIDToPath(args[w].ActionID))
    /\ UNCHANGED <<engineVars, auxVars, runs, prior, before, group, args, off, merr, fnret, ret, readerVars, lockVars>>

\* os.Rename(tmpPath, diskPath)
WRename(w) ==
    /\ pc[w] = "w_rename"
    /\ pc' = [pc EXCEPT ![w] = "w_remove"]
    /\ \/ /\ Exists(bodyTmpPath(args[w].ActionID))
          /\ Rename(bodyTmpPath(args[w].ActionID), actionIDToPath(args[w].ActionID))
          /\ NoFault
          /\ UNCHANGED werr
       \/ /\ ~Exists(bodyTmpPath(args[w].ActionID))
          /\ werr' = [werr EXCEPT ![w] = "rename cache file"]
          /\ NoFault
          /\ UNCHANGED fsVars
       \/ /\ CanFail /\ Fault
          /\ werr' = [werr EXCEPT ![w] = "rename cache file"]
          /\ UNCHANGED fsVars
    /\ UNCHANGED <<engineVars, auxVars, runs, prior, before, group, args, off, merr, fnret, ret, readerVars, lockVars>>

\* WRemove with writeWithMetadata going on to writeMetadata whatever write
\* returned.
WRemove_IgnoreWriteError(w) ==
    /\ pc[w] = "w_remove"
    /\ Remove(bodyTmpPath(args[w].ActionID))
    /\ pc' = [pc EXCEPT ![w] = "m_open"]
    /\ UNCHANGED <<engineVars, auxVars, runs, prior, before, group, args, off, werr, merr, fnret, ret, readerVars, lockVars, faults>>

\* defer os.Remove(tmpPath), run when write returns; then writeWithMetadata
\* returns write's error or goes on to writeMetadata
WRemove(w) ==
    /\ pc[w] = "w_remove"
    /\ Remove(bodyTmpPath(args[w].ActionID))
    /\ IF werr[w] # Nil
       THEN FnReturn(w, NoPath, werr[w])
       ELSE /\ pc' = [pc EXCEPT ![w] = "m_open"]
            /\ UNCHANGED fnret
    /\ UNCHANGED <<engineVars, auxVars, runs, prior, before, group, args, off, werr, merr, ret, readerVars, lockVars, faults>>

\* os.WriteFile(tmpPath, content): the open
MOpen(w) ==
    /\ pc[w] = "m_open"
    /\ \/ /\ OpenTrunc(w, metaTmpPath(args[w].ActionID), "meta")
          /\ pc' = [pc EXCEPT ![w] = "m_write"]
          /\ NoFault
          /\ UNCHANGED <<merr, fnret>>
       \/ /\ CanFail /\ Fault
          /\ merr' = [merr EXCEPT ![w] = "write temp metadata"]
          /\ FnReturn(w, actionIDToPath(args[w].ActionID), Nil)
          /\ UNCHANGED fsVars
    /\ UNCHANGED <<engineVars, auxVars, runs, prior, before, group, args, off, werr, ret, readerVars, lockVars>>

\* os.WriteFile(tmpPath, content): the write and the close
MWrite(w) ==
    /\ pc[w] = "m_write"
    /\ \/ /\ LET dt == [data EXCEPT ![fd[w]] = WriteAll(@, FormatMeta(Meta(w)))]
                 f == [fd EXCEPT ![w] = NoFile]
             IN /\ fd' = f
                /\ data' = Collect(dirent, f, dt)
                /\ dirent' = dirent
          /\ pc' = [pc EXCEPT ![w] = "m_rename"]
          /\ NoFault
          /\ UNCHANGED <<merr, fnret>>
       \/ /\ CanFail /\ Fault
          /\ Close(w)
          /\ merr' = [merr EXCEPT ![w] = "write temp metadata"]
          /\ FnReturn(w, actionIDToPath(args[w].ActionID), Nil)
    /\ UNCHANGED <<engineVars, auxVars, runs, prior, before, group, args, off, werr, ret, readerVars, lockVars>>

\* os.Rename(tmpPath, metaPath)
MRename(w) ==
    /\ pc[w] = "m_rename"
    /\ \/ /\ Exists(metaTmpPath(args[w].ActionID))
          /\ Rename(metaTmpPath(args[w].ActionID), metadataPath(args[w].ActionID))
          /\ FnReturn(w, actionIDToPath(args[w].ActionID), Nil)
          /\ NoFault
          /\ UNCHANGED merr
       \/ /\ ~Exists(metaTmpPath(args[w].ActionID))
          /\ merr' = [merr EXCEPT ![w] = "rename metadata"]
          /\ pc' = [pc EXCEPT ![w] = "m_remove"]
          /\ NoFault
          /\ UNCHANGED <<fsVars, fnret>>
       \/ /\ CanFail /\ Fault
          /\ merr' = [merr EXCEPT ![w] = "rename metadata"]
          /\ pc' = [pc EXCEPT ![w] = "m_remove"]
          /\ UNCHANGED <<fsVars, fnret>>
    /\ UNCHANGED <<engineVars, auxVars, runs, prior, before, group, args, off, werr, ret, readerVars, lockVars>>

\* os.Remove(tmpPath) after a failed metadata rename, with the error of
\* writeMetadata returned by writeWithMetadata instead of logged.
MRemove_ReturnErr(w) ==
    /\ pc[w] = "m_remove"
    /\ Remove(metaTmpPath(args[w].ActionID))
    /\ FnReturn(w, NoPath, merr[w])
    /\ UNCHANGED <<engineVars, auxVars, runs, prior, before, group, args, off, werr, merr, ret, readerVars, lockVars, faults>>

\* os.Remove(tmpPath) after a failed metadata rename; the warning is logged
\* and writeWithMetadata returns (diskPath, nil)
MRemove(w) ==
    /\ pc[w] = "m_remove"
    /\ Remove(metaTmpPath(args[w].ActionID))
    /\ FnReturn(w, actionIDToPath(args[w].ActionID), Nil)
    /\ UNCHANGED <<engineVars, auxVars, runs, prior, before, group, args, off, werr, merr, ret, readerVars, lockVars, faults>>

\* ------------------------------------------------------------------------
\* The locking groups: NoOpGroup.DoWithLock and MemLock.DoWithLock
\* ------------------------------------------------------------------------

\* A Put: the caller runs writeWithMetadata as the fn of DoWithLock on the
\* ActionID. NoOpGroup calls fn at once; MemLock first takes its own mutex.
Put(w) ==
    /\ pc[w] = "idle"
    /\ \E a \in ActionIDs, i \in PutInputs :
          args' = [args EXCEPT ![w] = [ActionID |-> a, OutputID |-> i.OutputID,
                                       Body |-> i.Body, Size |-> i.Size,
                                       PutTime |-> i.PutTime]]
    /\ pc' = [pc EXCEPT ![w] = IF group = "NoOp" THEN "w_create" ELSE "ml_lock"]
    /\ runs' = [runs EXCEPT ![w] = IF group = "NoOp" THEN @ + 1 ELSE @]
    /\ prior' = [prior EXCEPT ![w] = {x \in Writers : pc[x] = "done"}]
    /\ before' = [before EXCEPT ![w] = IF group = "NoOp" THEN Snapshot(args'[w].ActionID) ELSE @]
    /\ UNCHANGED <<engineVars, auxVars, group, fsVars, off, werr, merr, fnret, ret, readerVars, lockVars, faults>>

\* MapLock without the wait for MemLock's mutex: s.Lock() left out.
MapLock_NoWait(w) ==
    /\ pc[w] = "ml_lock"
    /\ mapMutex' = w
    /\ pc' = [pc EXCEPT ![w] = "ml_lookup"]
    /\ UNCHANGED <<engineVars, auxVars, runs, prior, before, group, fsVars, args, off, werr, merr, fnret, ret,
                   readerVars, locks, holder, lk, faults>>

\* s.Lock()
MapLock(w) ==
    /\ pc[w] = "ml_lock"
    /\ mapMutex = NoProc
    /\ mapMutex' = w
    /\ pc' = [pc EXCEPT ![w] = "ml_lookup"]
    /\ UNCHANGED <<engineVars, auxVars, runs, prior, before, group, fsVars, args, off, werr, merr, fnret, ret, readerVars,
                   locks, holder, lk, faults>>

\* MapLookup with one mutex for all keys: the key is not used in the lookup.
MapLookup_AnyKey(w) ==
    /\ pc[w] = "ml_lookup"
    /\ LET found == IF \E a \in ActionIDs : locks[a] # NoMutex
                    THEN locks[CHOOSE a \in ActionIDs : locks[a] # NoMutex]
                    ELSE NoMutex
       IN /\ lk' = [lk EXCEPT ![w] = found]
          /\ pc' = [pc EXCEPT ![w] = IF found = NoMutex THEN "ml_create" ELSE "ml_unlock"]
    /\ UNCHANGED <<engineVars, auxVars, runs, prior, before, group, fsVars, args, off, werr, merr, fnret, ret, readerVars,
                   mapMutex, locks, holder, faults>>

\* lock, ok := s.locks[key]
MapLookup(w) ==
    /\ pc[w] = "ml_lookup"
    /\ lk' = [lk EXCEPT ![w] = locks[args[w].ActionID]]
    /\ pc' = [pc EXCEPT ![w] = IF locks[args[w].ActionID] = NoMutex
                               THEN "ml_create" ELSE "ml_unlock"]
    /\ UNCHANGED <<engineVars, auxVars, runs, prior, before, group, fsVars, args, off, werr, merr, fnret, ret, readerVars,
                   mapMutex, locks, holder, faults>>

\* lock = &sync.Mutex{}; s.locks[key] = lock
MapCreate(w) ==
    /\ pc[w] = "ml_create"
    /\ lk' = [lk EXCEPT ![w] = w]
    /\ locks' = [locks EXCEPT ![args[w].ActionID] = w]
    /\ pc' = [pc EXCEPT ![w] = "ml_unlock"]
    /\ UNCHANGED <<engineVars, auxVars, runs, prior, before, group, fsVars, args, off, werr, merr, fnret, ret, readerVars,
                   mapMutex, holder, faults>>

\* MapUnlock with s.Unlock() left out.
MapUnlock_Skip(w) ==
    /\ pc[w] = "ml_unlock"
    /\ pc' = [pc EXCEPT ![w] = "kl_lock"]
    /\ UNCHANGED <<engineVars, auxVars, runs, prior, before, group, fsVars, args, off, werr, merr, fnret, ret, readerVars,
                   mapMutex, locks, holder, lk, faults>>

\* s.Unlock()
MapUnlock(w) ==
    /\ pc[w] = "ml_unlock"
    /\ mapMutex' = NoProc
    /\ pc' = [pc EXCEPT ![w] = "kl_lock"]
    /\ UNCHANGED <<engineVars, auxVars, runs, prior, before, group, fsVars, args, off, werr, merr, fnret, ret, readerVars,
                   locks, holder, lk, faults>>

\* lock.Lock(), then fn()
KeyLock(w) ==
    /\ pc[w] = "kl_lock"
    /\ holder[lk[w]] = NoProc
    /\ holder' = [holder EXCEPT ![lk[w]] = w]
    /\ pc' = [pc EXCEPT ![w] = "w_create"]
    /\ runs' = [runs EXCEPT ![w] = @ + 1]
    /\ before' = [before EXCEPT ![w] = Snapshot(args[w].ActionID)]
    /\ UNCHANGED <<engineVars, auxVars, prior, group, fsVars, args, off, werr, merr, fnret, ret, readerVars,
                   mapMutex, locks, lk, faults>>

\* MemLockReturn with the unlock not deferred: skipped when fn failed.
MemLockReturn_NoUnlockOnError(w) ==
    /\ pc[w] = "dl_ret"
    /\ group = "MemLock"
    /\ holder' = [holder EXCEPT ![lk[w]] = IF fnret[w].err # Nil THEN @ ELSE NoProc]
    /\ ret' = [ret EXCEPT ![w] = fnret[w]]
    /\ pc' = [pc EXCEPT ![w] = "done"]
    /\ UNCHANGED <<engineVars, auxVars, runs, prior, before, group, fsVars, args, off, werr, merr, fnret,
                   readerVars, mapMutex, locks, lk, faults>>

\* MemLock: the deferred lock.Unlock(), and DoWithLock returns what fn returned
MemLockReturn(w) ==
    /\ pc[w] = "dl_ret"
    /\ group = "MemLock"
    /\ holder' = [holder EXCEPT ![lk[w]] = NoProc]
    /\ ret' = [ret EXCEPT ![w] = fnret[w]]
    /\ pc' = [pc EXCEPT ![w] = "done"]
    /\ UNCHANGED <<engineVars, auxVars, runs, prior, before, group, fsVars, args, off, werr, merr, fnret, readerVars,
                   mapMutex, locks, lk, faults>>

\* NoOpGroup: v, err = fn(); return v, err
NoOpReturn(w) ==
    /\ pc[w] = "dl_ret"
    /\ group = "NoOp"
    /\ ret' = [ret EXCEPT ![w] = fnret[w]]
    /\ pc' = [pc EXCEPT ![w] = "done"]
    /\ UNCHANGED <<engineVars, auxVars, runs, prior, before, group, fsVars, args, off, werr, merr, fnret, readerVars,
                   lockVars, faults>>

\* ------------------------------------------------------------------------
\* localCache.check, and the caller reading the body of a hit
\* ------------------------------------------------------------------------

\* What a reader of the file at a path gets.
BodyAt(path) ==
    IF Exists(path) THEN [exists |-> TRUE, content |-> Content(path)] ELSE NoBody

\* What readMetadata returns on the file system as it is.
readMetadata(a) ==
    IF ~Exists(metadataPath(a)) THEN [err |-> "not exist", meta |-> NoMeta]
    ELSE ParseMeta(Content(metadataPath(a)))

\* What check returns on the file system as it is.
check(a) ==
    IF readMetadata(a).err = Nil
    THEN [hit |-> TRUE, meta |-> readMetadata(a).meta]
    ELSE Miss

\* check, up to the os.Stat: a Get of ActionID a
Check(r) ==
    /\ pc[r] = "idle"
    /\ \E a \in ActionIDs :
          /\ args' = [args EXCEPT ![r] = [NoArgs EXCEPT !.ActionID = a]]
          /\ \/ /\ readMetadata(a).err = Nil
                /\ res' = [res EXCEPT ![r] = check(a)]
                /\ pc' = [pc EXCEPT ![r] = "r_body"]
                /\ NoFault
             \/ /\ readMetadata(a).err = "not exist"
                /\ pc' = [pc EXCEPT ![r] = "done"]
                /\ NoFault
                /\ UNCHANGED res
             \/ /\ readMetadata(a).err \notin {Nil, "not exist"}
                /\ pc' = [pc EXCEPT ![r] = "r_stat"]
                /\ NoFault
                /\ UNCHANGED res
             \/ /\ Exists(metadataPath(a))
                /\ CanFail /\ Fault
                /\ pc' = [pc EXCEPT ![r] = "r_stat"]
                /\ UNCHANGED res
    /\ UNCHANGED <<engineVars, auxVars, runs, prior, before, group, fsVars, off, werr, merr, fnret, ret, warn, rbody, lockVars>>

\* check, after an error that is not ErrNotExist: the warning, os.Stat of
\* the body, the second warning, return nil
CheckStat(r) ==
    /\ pc[r] = "r_stat"
    /\ warn' = [warn EXCEPT ![r] = IF Exists(actionIDToPath(args[r].ActionID))
                                   THEN "data without metadata" ELSE "no metadata"]
    /\ pc' = [pc EXCEPT ![r] = "done"]
    /\ UNCHANGED <<engineVars, auxVars, runs, prior, before, group, fsVars, args, off, werr, merr, fnret, ret, res, rbody,
                   lockVars, faults>>

\* the caller of a hit reads the file at getPath(actionID)
ReadBody(r) ==
    /\ pc[r] = "r_body"
    /\ rbody' = [rbody EXCEPT ![r] = BodyAt(actionIDToPath(args[r].ActionID))]
    /\ pc' = [pc EXCEPT ![r] = "done"]
    /\ UNCHANGED <<engineVars, auxVars, runs, prior, before, group, fsVars, args, off, werr, merr, fnret, ret, res, warn,
                   lockVars, faults>>

\* ------------------------------------------------------------------------
\* The local store with its writers and readers
\* ------------------------------------------------------------------------

Next ==
    \/ \E w \in Writers : Put(w)
    \/ \E w \in Writers : MapLock(w)
    \/ \E w \in Writers : MapLookup(w)
    \/ \E w \in Writers : MapCreate(w)
    \/ \E w \in Writers : MapUnlock(w)
    \/ \E w \in Writers : KeyLock(w)
    \/ \E w \in Writers : WCreate(w)
    \/ \E w \in Writers : WCopy(w)
    \/ \E w \in Writers : WClose(w)
    \/ \E w \in Writers : WRename(w)
    \/ \E w \in Writers : WRemove(w)
    \/ \E w \in Writers : MOpen(w)
    \/ \E w \in Writers : MWrite(w)
    \/ \E w \in Writers : MRename(w)
    \/ \E w \in Writers : MRemove(w)
    \/ \E w \in Writers : MemLockReturn(w)
    \/ \E w \in Writers : NoOpReturn(w)
    \/ \E r \in Readers : Check(r)
    \/ \E r \in Readers : CheckStat(r)
    \/ \E r \in Readers : ReadBody(r)

Spec == Init /\ [][Next]_vars

\* ------------------------------------------------------------------------
\* The protocol engine: CacheProg.Run
\* ------------------------------------------------------------------------

\* Run returns.
Return(e) ==
    /\ runRet' = e
    /\ epc' = "exit"

\* What the caller decodes from an outbound line: a field that is not on the
\* line has its zero value.
WireID(l) == IF "ID" \in l.present THEN l.v.ID ELSE 0
WireErr(l) == IF "Err" \in l.present THEN l.v.Err ELSE ""
WireKnownCommands(l) == IF "KnownCommands" \in l.present THEN l.v.KnownCommands ELSE <<>>
WireField(l, f) == IF f \in l.present THEN l.v[f] ELSE ZeroResponse[f]

\* SendInitialResponse without the capabilities line.
SendInitialResponse_Skip ==
    /\ epc = "start"
    /\ epc' = "read"
    /\ UNCHANGED <<storeVars, auxVars, nread, line, scan, req, resp, out, calls, reqs, runRet>>

\* SendInitialResponse, and Run's return if it fails
SendInitialResponse ==
    /\ epc = "start"
    /\ \/ /\ out' = Append(out, Marshal([ZeroResponse EXCEPT
                                !.KnownCommands = <<CmdPut, CmdGet, CmdClose>>]))
          /\ epc' = "read"
          /\ UNCHANGED runRet
       \/ /\ Return("send initial response")
          /\ UNCHANGED out
    /\ UNCHANGED <<storeVars, auxVars, nread, line, scan, req, resp, calls, reqs>>

\* Run on io.EOF from ReadRequest, were it to take it for a read error.
RunOnEOF_Error == "read request"

\* Run on io.EOF from ReadRequest: break, return nil.
RunOnEOF == Nil

\* ReadRequest at the end of the stream while it waits for a body line, were
\* it to report the missing body as an error.
BodyEOF_Error == "read body line"

\* ReadRequest at the end of the stream while it waits for a body line:
\* return nil, io.EOF, on which Run returns as for any io.EOF.
BodyEOF == RunOnEOF

\* ReadRequest returned req to Run, which calls HandleRequest.
Dispatch(r) ==
    /\ req' = r
    /\ reqs' = Append(reqs, r.ID)
    /\ epc' = "handle"
    /\ UNCHANGED runRet

\* strings.TrimSpace(line) == "", as line == "".
IsBlank_EmptyOnly(l) == l.kind = "blank"

\* strings.TrimSpace(line) == "": the line is empty or white space only.
IsBlank(l) == l.kind \in {"blank", "spaces"}

\* One cp.scanner.Scan(): the next line, the end of the stream or a read error.
Scan(eof, failed) ==
    \/ /\ nread < MaxLines
       /\ nread' = nread + 1
       /\ line' \in Lines
       /\ ~eof
       /\ ~failed
       /\ UNCHANGED scan
    \/ /\ eof
       /\ ~failed
       /\ scan' = "eof"
       /\ UNCHANGED <<nread, line>>
    \/ /\ failed
       /\ ~eof
       /\ scan' = "err"
       /\ UNCHANGED <<nread, line>>

\* ScanRequest with a body line read for every put, whatever its BodySize.
ScanRequest_BodyForAnyPut ==
    /\ epc = "read"
    /\ \E eof, failed \in BOOLEAN :
          /\ Scan(eof, failed)
          /\ \/ /\ eof
                /\ Return(RunOnEOF)
                /\ UNCHANGED <<req, reqs>>
             \/ /\ failed
                /\ Return("read request")
                /\ UNCHANGED <<req, reqs>>
             \/ /\ ~eof /\ ~failed
                /\ IsBlank(line')
                /\ UNCHANGED <<epc, req, reqs, runRet>>
             \/ /\ ~eof /\ ~failed
                /\ ~IsBlank(line')
                /\ UnmarshalRequest(line').err # Nil
                /\ Return(UnmarshalRequest(line').err)
                /\ UNCHANGED <<req, reqs>>
             \/ /\ ~eof /\ ~failed
                /\ ~IsBlank(line')
                /\ UnmarshalRequest(line').err = Nil
                /\ UnmarshalRequest(line').req.Command = CmdPut
                /\ req' = UnmarshalRequest(line').req
                /\ epc' = "body"
                /\ UNCHANGED <<reqs, runRet>>
             \/ /\ ~eof /\ ~failed
                /\ ~IsBlank(line')
                /\ UnmarshalRequest(line').err = Nil
                /\ UnmarshalRequest(line').req.Command # CmdPut
                /\ Dispatch(UnmarshalRequest(line').req)
    /\ UNCHANGED <<storeVars, auxVars, resp, out, calls>>

\* ReadRequest, first loop: one Scan for the request line. A blank line is
\* skipped; the end of the stream is io.EOF, on which Run returns nil; a
\* read error or a line that does not unmarshal makes Run return an error.
ScanRequest ==
    /\ epc = "read"
    /\ \E eof, failed \in BOOLEAN :
          /\ Scan(eof, failed)
          /\ \/ /\ eof
                /\ Return(RunOnEOF)
                /\ UNCHANGED <<req, reqs>>
             \/ /\ failed
                /\ Return("read request")
                /\ UNCHANGED <<req, reqs>>
             \/ /\ ~eof /\ ~failed
                /\ IsBlank(line')
                /\ UNCHANGED <<epc, req, reqs, runRet>>
             \/ /\ ~eof /\ ~failed
                /\ ~IsBlank(line')
                /\ UnmarshalRequest(line').err # Nil
                /\ Return(UnmarshalRequest(line').err)
                /\ UNCHANGED <<req, reqs>>
             \/ /\ ~eof /\ ~failed
                /\ ~IsBlank(line')
                /\ UnmarshalRequest(line').err = Nil
                /\ UnmarshalRequest(line').req.Command = CmdPut
                /\ UnmarshalRequest(line').req.BodySize > 0
                /\ req' = UnmarshalRequest(line').req
                /\ epc' = "body"
                /\ UNCHANGED <<reqs, runRet>>
             \/ /\ ~eof /\ ~failed
                /\ ~IsBlank(line')
                /\ UnmarshalRequest(line').err = Nil
                /\ ~(UnmarshalRequest(line').req.Command = CmdPut
                     /\ UnmarshalRequest(line').req.BodySize > 0)
                /\ Dispatch(UnmarshalRequest(line').req)
    /\ UNCHANGED <<storeVars, auxVars, resp, out, calls>>

\* ReadRequest, second loop: one Scan for the body line of a put
ScanBody ==
    /\ epc = "body"
    /\ \E eof, failed \in BOOLEAN :
          /\ Scan(eof, failed)
          /\ \/ /\ eof
                /\ Return(BodyEOF)
                /\ UNCHANGED <<req, reqs>>
             \/ /\ failed
                /\ Return("read body line")
                /\ UNCHANGED <<req, reqs>>
             \/ /\ ~eof /\ ~failed
                /\ IsBlank(line')
                /\ UNCHANGED <<epc, req, reqs, runRet>>
             \/ /\ ~eof /\ ~failed
                /\ ~IsBlank(line')
                /\ DecodeBody(line').err # Nil
                /\ Return(DecodeBody(line').err)
                /\ UNCHANGED <<req, reqs>>
             \/ /\ ~eof /\ ~failed
                /\ ~IsBlank(line')
                /\ DecodeBody(line').err = Nil
                /\ Dispatch([req EXCEPT !.Body = [present |-> TRUE,
                                                  bytes |-> DecodeBody(line').bytes]])
    /\ UNCHANGED <<storeVars, auxVars, resp, out, calls>>

\* What a call that is not a Get has for the results of a Get.
NoGet == [outputID |-> <<>>, diskPath |-> "", size |-> 0, putTime |-> NoTime,
          miss |-> FALSE, err |-> Nil]

\* One call of the Backend, as the engine made it, with the error it
\* returned and, for a Get, all that it returned.
Call(op, e, g) == [op |-> op, ActionID |-> req.ActionID, OutputID |-> req.OutputID,
                   Body |-> IF op = "Put" THEN req.Body ELSE NoReader,
                   BodySize |-> IF op = "Put" THEN req.BodySize ELSE 0,
                   n |-> Len(reqs), err |-> e, got |-> g]

\* var resp Response; resp.ID = req.ID, without the ID.
NewResponse_ZeroID(r) == ZeroResponse

\* var resp Response; resp.ID = req.ID
NewResponse(r) == [ZeroResponse EXCEPT !.ID = r.ID]

\* The put case with the error of the Backend dropped.
PutResponse_DropErr(r, b) == [NewResponse(r) EXCEPT !.DiskPath = b.diskPath]

\* case CmdPut
PutResponse(r, b) ==
    IF b.err # Nil
    THEN [NewResponse(r) EXCEPT !.Err = b.err]
    ELSE [NewResponse(r) EXCEPT !.DiskPath = b.diskPath]

\* The get case with the values of the Backend copied also on a miss.
GetResponse_CopyOnMiss(r, b) ==
    IF b.err # Nil
    THEN [NewResponse(r) EXCEPT !.Err = b.err]
    ELSE [NewResponse(r) EXCEPT !.Miss = b.miss, !.OutputID = b.outputID,
                                !.DiskPath = b.diskPath, !.Size = b.size,
                                !.Time = b.putTime]

\* case CmdGet
GetResponse(r, b) ==
    IF b.err # Nil
    THEN [NewResponse(r) EXCEPT !.Err = b.err]
    ELSE IF b.miss
    THEN [NewResponse(r) EXCEPT !.Miss = TRUE]
    ELSE [NewResponse(r) EXCEPT !.OutputID = b.outputID, !.DiskPath = b.diskPath,
                                !.Size = b.size, !.Time = b.putTime]

\* case CmdClose
CloseResponse(r, e) ==
    IF e # Nil THEN [NewResponse(r) EXCEPT !.Err = e] ELSE NewResponse(r)

\* The default case with the error left out of the response.
UnknownResponse_NoErr(r) == NewResponse(r)

\* default
UnknownResponse(r) == [NewResponse(r) EXCEPT !.Err = "unknown command"]

\* HandleRequest with the Backend closed on a command it does not know.
HandleRequest_CloseOnUnknown ==
    /\ epc = "handle"
    /\ epc' = "respond"
    /\ \/ /\ req.Command = CmdPut
          /\ \E b \in PutResults :
                /\ calls' = Append(calls, Call("Put", b.err, NoGet))
                /\ resp' = PutResponse(req, b)
       \/ /\ req.Command = CmdGet
          /\ \E b \in GetResults :
                /\ calls' = Append(calls, Call("Get", b.err, b))
                /\ resp' = GetResponse(req, b)
       \/ /\ req.Command = CmdClose
          /\ \E e \in CloseResults :
                /\ calls' = Append(calls, Call("Close", e, NoGet))
                /\ resp' = CloseResponse(req, e)
       \/ /\ req.Command \notin {CmdPut, CmdGet, CmdClose}
          /\ resp' = UnknownResponse(req)
          /\ calls' = Append(calls, Call("Close", Nil, NoGet))
    /\ UNCHANGED <<storeVars, auxVars, nread, line, scan, req, out, reqs, runRet>>

\* HandleRequest up to SendResponse: the switch on the command
HandleRequest ==
    /\ epc = "handle"
    /\ epc' = "respond"
    /\ \/ /\ req.Command = CmdPut
          /\ \E b \in PutResults :
                /\ calls' = Append(calls, Call("Put", b.err, NoGet))
                /\ resp' = PutResponse(req, b)
       \/ /\ req.Command = CmdGet
          /\ \E b \in GetResults :
                /\ calls' = Append(calls, Call("Get", b.err, b))
                /\ resp' = GetResponse(req, b)
       \/ /\ req.Command = CmdClose
          /\ \E e \in CloseResults :
                /\ calls' = Append(calls, Call("Close", e, NoGet))
                /\ resp' = CloseResponse(req, e)
       \/ /\ req.Command \notin {CmdPut, CmdGet, CmdClose}
          /\ resp' = UnknownResponse(req)
          /\ UNCHANGED calls
    /\ UNCHANGED <<storeVars, auxVars, nread, line, scan, req, out, reqs, runRet>>

\* SendResponse and Run's loop after it, without the break after a close.
SendResponse_NoBreak ==
    /\ epc = "respond"
    /\ \/ /\ out' = Append(out, Marshal(resp))
          /\ epc' = "read"
          /\ UNCHANGED runRet
       \/ /\ Return("handle request")
          /\ UNCHANGED out
    /\ UNCHANGED <<storeVars, auxVars, nread, line, scan, req, resp, calls, reqs>>

\* SendResponse at the end of HandleRequest, and Run's loop after it: an
\* error ends Run; after a close Run breaks and returns nil
SendResponse ==
    /\ epc = "respond"
    /\ \/ /\ out' = Append(out, Marshal(resp))
          /\ IF req.Command = CmdClose
             THEN Return(Nil)
             ELSE epc' = "read" /\ UNCHANGED runRet
       \/ /\ Return("handle request")
          /\ UNCHANGED out
    /\ UNCHANGED <<storeVars, auxVars, nread, line, scan, req, resp, calls, reqs>>

NextEngine ==
    \/ SendInitialResponse
    \/ ScanRequest
    \/ ScanBody
    \/ HandleRequest
    \/ SendResponse

InitEngine ==
    /\ group = "NoOp"
    /\ StoreInit
    /\ EngineInit
    /\ AuxIdle

SpecEngine == InitEngine /\ [][NextEngine]_vars

\* ------------------------------------------------------------------------
\* check on a cache directory that already has files
\* ------------------------------------------------------------------------

\* The contents a .meta file left in the cache directory may have: the
\* record as writeMetadata writes it, an empty file, the first line only
\* (size and time lines missing), a record whose size line has no number, a
\* record whose outputID is not hex, and text with none of the prefixes.
LeftMeta == [OutputID |-> <<171>>, Size |-> 2, PutTime |-> [sec |-> 4, nsec |-> 3]]
MetaContents ==
    {FormatMeta(LeftMeta),
     <<>>,
     SubSeq(FormatMeta(LeftMeta), 1, 1),
     [FormatMeta(LeftMeta) EXCEPT ![2] = [k |-> "size:", v |-> <<>>]],
     [FormatMeta(LeftMeta) EXCEPT ![1] = [k |-> "outputID:", v |-> <<10>>]],
     <<[k |-> "", v |-> <<0>>]>>}
LeftBody == <<7, 8>>

\* The inodes of the files left for an ActionID.
LeftBy == CHOOSE f \in [ActionIDs -> Writers] : \A a, b \in ActionIDs : a # b => f[a] # f[b]

\* newLocalCache on a cache directory that exists: each ActionID may have a
\* body file and may have a .meta file, of any of the contents.
InitCheck ==
    /\ group = "NoOp"
    /\ \E hasBody, hasMeta \in [ActionIDs -> BOOLEAN], mc \in [ActionIDs -> MetaContents] :
          /\ dirent = [p \in Paths |->
                IF \E a \in ActionIDs : p = actionIDToPath(a) /\ hasBody[a]
                THEN <<LeftBy[CHOOSE a \in ActionIDs : p = actionIDToPath(a)], "body">>
                ELSE IF \E a \in ActionIDs : p = metadataPath(a) /\ hasMeta[a]
                THEN <<LeftBy[CHOOSE a \in ActionIDs : p = metadataPath(a)], "meta">>
                ELSE NoFile]
          /\ data = [i \in Inodes |->
                IF \E a \in ActionIDs : i = <<LeftBy[a], "body">> /\ hasBody[a]
                THEN LeftBody
                ELSE IF \E a \in ActionIDs : i = <<LeftBy[a], "meta">> /\ hasMeta[a]
                THEN mc[CHOOSE a \in ActionIDs : i = <<LeftBy[a], "meta">>]
                ELSE <<>>]
    /\ ProcInit
    /\ EngineIdle
    /\ AuxIdle

NextCheck ==
    \/ \E r \in Readers : Check(r)
    \/ \E r \in Readers : CheckStat(r)
    \/ \E r \in Readers : ReadBody(r)

SpecCheck == InitCheck /\ [][NextCheck]_vars

\* ------------------------------------------------------------------------
\* The Debug decorator around a Backend
\* ------------------------------------------------------------------------

MaxCalls == 2

\* A call of a Backend method with its arguments (the body reader is named
\* by the bytes it yields); a method takes the arguments it has.
BackendCall(op, actionID, outputID, body, bodySize) ==
    [op |-> op, actionID |-> actionID, outputID |-> outputID, body |-> body,
     bodySize |-> bodySize]

\* What a wrapped backend may return: any values, values beside an error
\* included.
WrappedResults(op) ==
    IF op = "Put"
    THEN {[NoGet EXCEPT !.diskPath = d, !.err = e] : d \in {"", "/cache/01/v01"},
                                                     e \in {Nil, "put failed"}}
    ELSE IF op = "Get"
    THEN GetResults \cup
         {[outputID |-> <<171>>, diskPath |-> "/cache/01/v01", size |-> 2,
           putTime |-> "t1", miss |-> TRUE, err |-> "get failed"]}
    ELSE {[NoGet EXCEPT !.err = e] : e \in {Nil, "failed"}}

\* Debug.Put after the call of the backend: the path and the error on an
\* error, the path and nil otherwise; without the path on an error.
DebugPutReturn_DropPath(r) ==
    IF r.err # Nil
    THEN [NoGet EXCEPT !.err = r.err]
    ELSE [NoGet EXCEPT !.diskPath = r.diskPath, !.err = Nil]

DebugPutReturn(r) ==
    IF r.err # Nil
    THEN [NoGet EXCEPT !.diskPath = r.diskPath, !.err = r.err]
    ELSE [NoGet EXCEPT !.diskPath = r.diskPath, !.err = Nil]

\* Debug.Get after the call of the backend: all six values in both branches.
DebugGetReturn(r) ==
    IF r.err # Nil
    THEN [outputID |-> r.outputID, diskPath |-> r.diskPath, size |-> r.size,
          putTime |-> r.putTime, miss |-> r.miss, err |-> r.err]
    ELSE [outputID |-> r.outputID, diskPath |-> r.diskPath, size |-> r.size,
          putTime |-> r.putTime, miss |-> r.miss, err |-> r.err]

\* Debug.Close after the call of the backend.
DebugCloseReturn(r) == [NoGet EXCEPT !.err = r.err]

\* Debug.Clear after the call of the backend: the error, or nil.
DebugClearReturn(r) ==
    IF r.err # Nil THEN [NoGet EXCEPT !.err = r.err] ELSE [NoGet EXCEPT !.err = Nil]

\* One method of Debug from its call to its return: it is called with c,
\* calls the wrapped backend with b, which returns r, and returns d.
DebugMethod(c, b, r, d) ==
    /\ Len(dcalls) < MaxCalls
    /\ dcalls' = Append(dcalls, c)
    /\ bcalls' = Append(bcalls, b)
    /\ brets' = Append(brets, r)
    /\ drets' = Append(drets, d)
    /\ UNCHANGED <<storeVars, engineVars, mu, sketches, mpc, mloc, mret, nrec, pin, pout>>

\* func (d *Debug) Put(actionID, outputID, body, bodySize)
DebugPut ==
    \E a \in ActionIDs, r \in WrappedResults("Put") :
        DebugMethod(BackendCall("Put", a, <<171>>, <<7, 8>>, 2),
                    BackendCall("Put", a, <<171>>, <<7, 8>>, 2),
                    r, DebugPutReturn(r))

\* func (d *Debug) Get(actionID)
DebugGet ==
    \E a \in ActionIDs, r \in WrappedResults("Get") :
        DebugMethod(BackendCall("Get", a, <<>>, <<>>, 0),
                    BackendCall("Get", a, <<>>, <<>>, 0),
                    r, DebugGetReturn(r))

\* func (d *Debug) Close()
DebugClose ==
    \E r \in WrappedResults("Close") :
        DebugMethod(BackendCall("Close", <<>>, <<>>, <<>>, 0),
                    BackendCall("Close", <<>>, <<>>, <<>>, 0),
                    r, DebugCloseReturn(r))

\* func (d *Debug) Clear()
DebugClear ==
    \E r \in WrappedResults("Clear") :
        DebugMethod(BackendCall("Clear", <<>>, <<>>, <<>>, 0),
                    BackendCall("Clear", <<>>, <<>>, <<>>, 0),
                    r, DebugClearReturn(r))

NextDebug ==
    \/ DebugPut
    \/ DebugGet
    \/ DebugClose
    \/ DebugClear

\* The local store and the engine not in use: a new Debug, a new tracker.
InitAux ==
    /\ group = "NoOp"
    /\ StoreInit
    /\ EngineIdle
    /\ AuxIdle

SpecDebug == InitAux /\ [][NextDebug]_vars

\* ------------------------------------------------------------------------
\* MemLock under fair scheduling
\* ------------------------------------------------------------------------

\* A step of DoWithLock on MemLock, or of the fn it runs, by writer w.
LockStep(w) ==
    \/ MapLock(w)
    \/ MapLookup(w)
    \/ MapCreate(w)
    \/ MapUnlock(w)
    \/ KeyLock(w)
    \/ WCreate(w)
    \/ WCopy(w)
    \/ WClose(w)
    \/ WRename(w)
    \/ WRemove(w)
    \/ MOpen(w)
    \/ MWrite(w)
    \/ MRename(w)
    \/ MRemove(w)
    \/ MemLockReturn(w)

\* NewMemLock, on a new cache directory.
InitLock ==
    /\ group = "MemLock"
    /\ StoreInit
    /\ EngineIdle
    /\ AuxIdle

\* Concurrent DoWithLock calls on one MemLock. The scheduler runs every
\* goroutine that can take a step, and a goroutine blocked in Lock() can
\* take its step once the mutex is free: weak fairness of each caller's steps.
SpecLock ==
    /\ InitLock
    /\ [][\E w \in Writers : Put(w) \/ LockStep(w)]_vars
    /\ \A w \in Writers : WF_vars(LockStep(w))

\* ------------------------------------------------------------------------
\* The latency tracker. A sketch is modelled by the number of samples added
\* to it; a caller holds the tracker's mutex from its Lock to its Unlock.
\* ------------------------------------------------------------------------

MaxSamples == 2

\* A caller begins a call: Record, RecordFunc, RecordFuncWithResult,
\* GetQuantile or GetStats with a label, or GetAllStats. The calls that
\* record are bounded by MaxSamples.
MCall(t) ==
    /\ mpc[t] = "idle"
    /\ \E op \in {"Record", "RecordFunc", "RecordFuncWithResult", "GetQuantile",
                   "GetStats", "GetAllStats"}, l \in Labels \cup {""} :
          /\ (l = "") = (op = "GetAllStats")
          /\ op \in {"Record", "RecordFunc", "RecordFuncWithResult"} =>
                Cardinality({x \in MThreads :
                    /\ mloc[x].op \in {"Record", "RecordFunc", "RecordFuncWithResult"}
                    /\ mpc[x] \in {"fn", "lock", "lookup", "create", "add", "unlock"}})
                  + nrec["get"] + nrec["put"] < MaxSamples
          /\ mloc' = [mloc EXCEPT ![t] = [NoLoc EXCEPT !.op = op, !.label = l]]
          /\ mpc' = [mpc EXCEPT ![t] =
                IF op \in {"RecordFunc", "RecordFuncWithResult"} THEN "fn" ELSE "lock"]
    /\ mret' = [mret EXCEPT ![t] = NoLoc]
    /\ UNCHANGED <<mu, sketches, nrec>>
    /\ UNCHANGED <<storeVars, engineVars, dcalls, bcalls, brets, drets, pin, pout>>

\* RecordFunc that records only when fn returned no error.
MRunFn_SkipOnError(t) ==
    /\ mpc[t] = "fn"
    /\ \E e \in {Nil, "fn failed"} :
          /\ mloc' = [mloc EXCEPT ![t].fnruns = @ + 1, ![t].fnerr = e,
                                  ![t].result = IF mloc[t].op = "RecordFuncWithResult"
                                                THEN 7 ELSE 0]
          /\ mpc' = [mpc EXCEPT ![t] = IF e # Nil THEN "fnret" ELSE "lock"]
    /\ UNCHANGED <<mu, sketches, mret, nrec>>
    /\ UNCHANGED <<storeVars, engineVars, dcalls, bcalls, brets, drets, pin, pout>>

\* start := time.Now(); err := fn() (or result, err := fn()); then
\* lt.Record(operation, time.Since(start)) is called whatever fn returned.
MRunFn(t) ==
    /\ mpc[t] = "fn"
    /\ \E e \in {Nil, "fn failed"} :
          mloc' = [mloc EXCEPT ![t].fnruns = @ + 1, ![t].fnerr = e,
                               ![t].result = IF mloc[t].op = "RecordFuncWithResult"
                                             THEN 7 ELSE 0]
    /\ mpc' = [mpc EXCEPT ![t] = "lock"]
    /\ UNCHANGED <<mu, sketches, mret, nrec>>
    /\ UNCHANGED <<storeVars, engineVars, dcalls, bcalls, brets, drets, pin, pout>>

\* lt.mu.Lock(), the first statement of Record, GetQuantile, GetStats and
\* GetAllStats
MLock(t) ==
    /\ mpc[t] = "lock"
    /\ mu = NoProc
    /\ mu' = t
    /\ mpc' = [mpc EXCEPT ![t] =
          IF mloc[t].op = "GetAllStats" /\ ~mloc[t].inner THEN "range0" ELSE "lookup"]
    /\ UNCHANGED <<sketches, mloc, mret, nrec>>
    /\ UNCHANGED <<storeVars, engineVars, dcalls, bcalls, brets, drets, pin, pout>>

\* sketch, exists := lt.sketches[operation]; GetQuantile and GetStats return
\* an error when the label is not in the map.
MLookup(t) ==
    /\ mpc[t] = "lookup"
    /\ LET ex == sketches[mloc[t].label].exists
           rec == mloc[t].op \in {"Record", "RecordFunc", "RecordFuncWithResult"}
       IN /\ mloc' = [mloc EXCEPT ![t].exists = ex,
                                   ![t].err = IF ~rec /\ ~ex THEN "no data" ELSE Nil,
                                   ![t].stat = [Operation |-> "", Count |-> 0]]
          /\ mpc' = [mpc EXCEPT ![t] =
                IF rec THEN (IF ex THEN "add" ELSE "create")
                ELSE (IF ex THEN "read" ELSE "unlock")]
    /\ UNCHANGED <<mu, sketches, mret, nrec>>
    /\ UNCHANGED <<storeVars, engineVars, dcalls, bcalls, brets, drets, pin, pout>>

\* MCreate with lt.sketches[operation] = sketch left out.
MCreate_NoStore(t) ==
    /\ mpc[t] = "create"
    /\ mpc' = [mpc EXCEPT ![t] = "add"]
    /\ UNCHANGED <<mu, sketches, mloc, mret, nrec>>
    /\ UNCHANGED <<storeVars, engineVars, dcalls, bcalls, brets, drets, pin, pout>>

\* A new sketch is created and stored in the map under the label.
MCreate(t) ==
    /\ mpc[t] = "create"
    /\ sketches' = [sketches EXCEPT ![mloc[t].label] = [exists |-> TRUE, count |-> 0]]
    /\ mpc' = [mpc EXCEPT ![t] = "add"]
    /\ UNCHANGED <<mu, mloc, mret, nrec>>
    /\ UNCHANGED <<storeVars, engineVars, dcalls, bcalls, brets, drets, pin, pout>>

\* sketch.Add(ms): one more sample in the sketch of the label.
MAdd(t) ==
    /\ mpc[t] = "add"
    /\ sketches' = [sketches EXCEPT ![mloc[t].label].count = @ + 1]
    /\ mloc' = [mloc EXCEPT ![t].added = Append(@, mloc[t].label)]
    /\ mpc' = [mpc EXCEPT ![t] = "unlock"]
    /\ UNCHANGED <<mu, mret, nrec>>
    /\ UNCHANGED <<storeVars, engineVars, dcalls, bcalls, brets, drets, pin, pout>>

\* GetStats reads the count of the sketch (and its quantiles): a Stats with
\* only the label when the count is 0, with the count otherwise. GetQuantile
\* reads one quantile, which an empty sketch does not have.
MRead(t) ==
    /\ mpc[t] = "read"
    /\ LET count == sketches[mloc[t].label].count
       IN mloc' = [mloc EXCEPT
              ![t].stat = IF mloc[t].op = "GetQuantile" THEN [Operation |-> "", Count |-> 0]
                          ELSE IF count = 0
                          THEN [Operation |-> mloc[t].label, Count |-> 0]
                          ELSE [Operation |-> mloc[t].label, Count |-> count],
              ![t].err = IF mloc[t].op = "GetQuantile" /\ count = 0
                         THEN "empty sketch" ELSE Nil]
    /\ mpc' = [mpc EXCEPT ![t] = "unlock"]
    /\ UNCHANGED <<mu, sketches, mret, nrec>>
    /\ UNCHANGED <<storeVars, engineVars, dcalls, bcalls, brets, drets, pin, pout>>

\* The deferred lt.mu.Unlock() and the return of Record, GetQuantile,
\* GetStats or GetAllStats: to RecordFunc after a Record it called, to
\* GetAllStats after a GetStats it called, to the caller otherwise.
MUnlock(t) ==
    /\ mpc[t] = "unlock"
    /\ mu' = NoProc
    /\ LET rec == mloc[t].op \in {"Record", "RecordFunc", "RecordFuncWithResult"}
           back == mloc[t].op \in {"RecordFunc", "RecordFuncWithResult"} \/ mloc[t].inner
       IN /\ nrec' = IF rec THEN [nrec EXCEPT ![mloc[t].label] = @ + 1] ELSE nrec
          /\ mret' = IF back THEN mret ELSE [mret EXCEPT ![t] = mloc[t]]
          /\ mpc' = [mpc EXCEPT ![t] =
                IF mloc[t].inner THEN "relock" ELSE IF back THEN "fnret" ELSE "idle"]
    /\ UNCHANGED <<sketches, mloc>>
    /\ UNCHANGED <<storeVars, engineVars, dcalls, bcalls, brets, drets, pin, pout>>

\* return err (RecordFunc); return result, err (RecordFuncWithResult)
MFnReturn(t) ==
    /\ mpc[t] = "fnret"
    /\ mret' = [mret EXCEPT ![t] = [mloc[t] EXCEPT !.err = mloc[t].fnerr,
                                                   !.val = mloc[t].result]]
    /\ mpc' = [mpc EXCEPT ![t] = "idle"]
    /\ UNCHANGED <<mu, sketches, mloc, nrec>>
    /\ UNCHANGED <<storeVars, engineVars, dcalls, bcalls, brets, drets, pin, pout>>

\* GetAllStats, the range over the map: it begins with the labels then in
\* the map; each step produces a label not yet produced, or ends the loop
\* once every label that was in the map at the beginning has been produced
\* (a label added during the loop may be produced or skipped).
MRange(t) ==
    /\ mpc[t] \in {"range0", "range"}
    /\ LET keys == {l \in Labels : sketches[l].exists}
       IN \/ /\ mpc[t] = "range0"
             /\ mloc' = [mloc EXCEPT ![t].started = keys]
             /\ mpc' = [mpc EXCEPT ![t] = "range"]
          \/ /\ mpc[t] = "range"
             /\ \E l \in keys \ mloc[t].visited :
                   mloc' = [mloc EXCEPT ![t].visited = @ \cup {l}, ![t].label = l]
             /\ mpc' = [mpc EXCEPT ![t] = "range_unlock"]
          \/ /\ mpc[t] = "range"
             /\ mloc[t].started \subseteq mloc[t].visited
             /\ mpc' = [mpc EXCEPT ![t] = "unlock"]
             /\ UNCHANGED mloc
    /\ UNCHANGED <<mu, sketches, mret, nrec>>
    /\ UNCHANGED <<storeVars, engineVars, dcalls, bcalls, brets, drets, pin, pout>>

\* lt.mu.Unlock() in the loop, before GetStats(operation) is called
MRangeUnlock(t) ==
    /\ mpc[t] = "range_unlock"
    /\ mu' = NoProc
    /\ mloc' = [mloc EXCEPT ![t].inner = TRUE]
    /\ mpc' = [mpc EXCEPT ![t] = "lock"]
    /\ UNCHANGED <<sketches, mret, nrec>>
    /\ UNCHANGED <<storeVars, engineVars, dcalls, bcalls, brets, drets, pin, pout>>

\* MRelock with lt.mu.Lock() left out.
MRelock_NoLock(t) ==
    /\ mpc[t] = "relock"
    /\ mloc' = [mloc EXCEPT ![t].inner = FALSE,
                            ![t].stats = IF mloc[t].err = Nil
                                         THEN Append(@, mloc[t].stat) ELSE @]
    /\ mpc' = [mpc EXCEPT ![t] = "range"]
    /\ UNCHANGED <<mu, sketches, mret, nrec>>
    /\ UNCHANGED <<storeVars, engineVars, dcalls, bcalls, brets, drets, pin, pout>>

\* lt.mu.Lock() in the loop, after GetStats returned; the Stats is appended
\* when GetStats returned no error.
MRelock(t) ==
    /\ mpc[t] = "relock"
    /\ mu = NoProc
    /\ mu' = t
    /\ mloc' = [mloc EXCEPT ![t].inner = FALSE,
                            ![t].stats = IF mloc[t].err = Nil
                                         THEN Append(@, mloc[t].stat) ELSE @]
    /\ mpc' = [mpc EXCEPT ![t] = "range"]
    /\ UNCHANGED <<sketches, mret, nrec>>
    /\ UNCHANGED <<storeVars, engineVars, dcalls, bcalls, brets, drets, pin, pout>>

NextMetrics ==
    \/ \E t \in MThreads : MCall(t)
    \/ \E t \in MThreads : MRunFn(t)
    \/ \E t \in MThreads : MLock(t)
    \/ \E t \in MThreads : MLookup(t)
    \/ \E t \in MThreads : MCreate(t)
    \/ \E t \in MThreads : MAdd(t)
    \/ \E t \in MThreads : MRead(t)
    \/ \E t \in MThreads : MUnlock(t)
    \/ \E t \in MThreads : MFnReturn(t)
    \/ \E t \in MThreads : MRange(t)
    \/ \E t \in MThreads : MRangeUnlock(t)
    \/ \E t \in MThreads : MRelock(t)

SpecMetrics == InitAux /\ [][NextMetrics]_vars

\* ------------------------------------------------------------------------
\* actionIDToPath and metadataPath on any ActionID
\* ------------------------------------------------------------------------

MaxIDLen == 2

\* actionIDToPath and metadataPath are called on each of the two ActionIDs
\* given: the paths, or the panic of the slice expression.
ComputePath ==
    /\ pout = <<>>
    /\ pout' = [i \in 1..2 |->
          IF HexPrefix(HexEncode(pin[i])).panic
          THEN [panic |-> TRUE, path |-> NoPath, meta |-> NoPath]
          ELSE [panic |-> FALSE, path |-> actionIDToPath(pin[i]),
                meta |-> metadataPath(pin[i])]]
    /\ UNCHANGED <<storeVars, engineVars, dcalls, bcalls, brets, drets,
                   mu, sketches, mpc, mloc, mret, nrec, pin>>

\* Two ActionIDs of up to MaxIDLen bytes, the empty one included.
InitPath ==
    /\ group = "NoOp"
    /\ StoreInit
    /\ EngineIdle
    /\ dcalls = <<>> /\ bcalls = <<>> /\ brets = <<>> /\ drets = <<>>
    /\ mu = NoProc
    /\ sketches = [l \in Labels |-> NoSketch]
    /\ mpc = [t \in MThreads |-> "idle"]
    /\ mloc = [t \in MThreads |-> NoLoc]
    /\ mret = [t \in MThreads |-> NoLoc]
    /\ nrec = [l \in Labels |-> 0]
    /\ pin \in (UNION {[1..n -> {0, 1, 35, 255}] : n \in 0..MaxIDLen})
                \X (UNION {[1..n -> {0, 1, 35, 255}] : n \in 0..MaxIDLen})
    /\ pout = <<>>

SpecPath == InitPath /\ [][ComputePath]_vars

\* ------------------------------------------------------------------------
\* Properties of the local store and the locking groups
\* ------------------------------------------------------------------------

FnPcs == {"w_create", "w_copy", "w_close", "w_rename", "w_remove",
          "m_open", "m_write", "m_rename", "m_remove"}
InFn(w) == pc[w] \in FnPcs
Returned(w) == pc[w] = "done"
SameKey(x, y) == args[x].ActionID = args[y].ActionID

\* Every other Put of w's ActionID had returned before w's Put began.
Undisturbed(w) ==
    \A x \in Writers \ {w} : SameKey(x, w) => x \in prior[w]

\* The file at the path is the complete content c of a write and no process
\* has it open.
CompleteFile(path, c) ==
    /\ Exists(path)
    /\ Content(path) = c
    /\ \A p \in Procs : fd[p] # dirent[path]

\* C1: a writeWithMetadata(A, body, {O, n}) that returned without error (its
\* metadata installed), followed by check(A) with no other Put of A in
\* between, is a hit with OutputID O and Size n, and the file at the returned
\* path holds body. Stated for every OutputID, the empty one included.
C1_RoundTrip ==
    \A w \in Writers :
        (Returned(w) /\ ret[w].err = Nil /\ merr[w] = Nil /\ Undisturbed(w)) =>
            /\ check(args[w].ActionID).hit
            /\ check(args[w].ActionID).meta.OutputID = args[w].OutputID
            /\ check(args[w].ActionID).meta.Size = args[w].Size
            /\ BodyAt(ret[w].v) = [exists |-> TRUE, content |-> args[w].Body]

\* C2: whenever check reports a hit, the files at the final body path and at
\* the .meta path each hold the complete content of one write and are not
\* being written, under every interleaving of writers and readers.
C2_NoPartialHit ==
    \A a \in ActionIDs :
        check(a).hit =>
            /\ \E w \in Writers :
                  args[w].ActionID = a /\ CompleteFile(actionIDToPath(a), args[w].Body)
            /\ \E w \in Writers :
                  args[w].ActionID = a /\ CompleteFile(metadataPath(a), FormatMeta(Meta(w)))

\* C3: after Put(A, O1, B1) and then Put(A, O2, B2) the second Put returned
\* no error and check(A) gives O2 with body B2; and what a reader gets from
\* check and from the file at the final path is the OutputID and the body of
\* one and the same Put. Stated for Puts serialized by MemLock with no
\* failing system call.
C3_LastWriteWins ==
    (group = "MemLock" /\ faults = 0) =>
        /\ \A w1, w2 \in Writers :
              (Returned(w1) /\ Returned(w2) /\ SameKey(w1, w2) /\ w1 \in prior[w2]) =>
                  /\ ret[w2].err = Nil
                  /\ check(args[w2].ActionID).hit
                  /\ check(args[w2].ActionID).meta.OutputID = args[w2].OutputID
                  /\ BodyAt(ret[w2].v) = [exists |-> TRUE, content |-> args[w2].Body]
        /\ \A r \in Readers :
              (pc[r] = "done" /\ res[r].hit) =>
                  \E w \in Writers :
                      /\ SameKey(w, r)
                      /\ res[r].meta.OutputID = args[w].OutputID
                      /\ rbody[r] = [exists |-> TRUE, content |-> args[w].Body]

\* C4: when all the Puts of one ActionID A, run concurrently through MemLock,
\* have returned (no system call failing), each returned no error and
\* check(A) is a hit whose OutputID and body are those of one of the Puts.
C4_ConcurrentPuts ==
    (/\ group = "MemLock"
     /\ faults = 0
     /\ \A w \in Writers : Returned(w)
     /\ \A x, y \in Writers : SameKey(x, y)) =>
        /\ \A w \in Writers : ret[w].err = Nil
        /\ \E w \in Writers :
              /\ check(args[w].ActionID).hit
              /\ check(args[w].ActionID).meta.OutputID = args[w].OutputID
              /\ BodyAt(ret[w].v) = [exists |-> TRUE, content |-> args[w].Body]

\* C5: under MemLock no two calls of DoWithLock with the same key are inside
\* their fn at the same time, the calls that race to create the key's mutex
\* included.
C5_MutualExclusion ==
    group = "MemLock" =>
        \A x, y \in Writers :
            (x # y /\ SameKey(x, y) /\ InFn(x)) => ~InFn(y)

\* One call is inside fn while another call of the same key, which found the
\* mutex the first one created, waits for it.
C5_Witness ==
    \E x, y \in Writers :
        /\ x # y /\ SameKey(x, y)
        /\ group = "MemLock"
        /\ InFn(x) /\ pc[y] = "kl_lock"
        /\ lk[x] = x /\ lk[y] = x

\* C6: DoWithLock, of either group, has called fn exactly once when it
\* returns, returns the value and the error fn returned, and (MemLock) the
\* caller holds no key mutex once it has returned, whether fn failed or not.
C6_DoWithLock ==
    \A w \in Writers :
        /\ runs[w] <= 1
        /\ Returned(w) =>
              /\ runs[w] = 1
              /\ ret[w] = fnret[w]
              /\ \A m \in Mutexes : holder[m] # w

\* A MemLock call whose fn failed has returned that error, and the next call
\* of the same key has acquired the mutex and is inside its fn.
C6_Witness ==
    \E x, y \in Writers :
        /\ x # y /\ SameKey(x, y)
        /\ group = "MemLock"
        /\ Returned(x) /\ ret[x].err # Nil /\ ret[x].v = NoPath
        /\ InFn(y) /\ lk[y] = lk[x] /\ holder[lk[y]] = y


\* The positions of a Put before its body is renamed to the final path, and
\* those after the body rename and before the metadata is installed.
BeforeBodyRename(w) ==
    \/ pc[w] \in {"ml_lock", "ml_lookup", "ml_create", "ml_unlock", "kl_lock",
                  "w_create", "w_copy", "w_close", "w_rename"}
    \/ pc[w] = "w_remove" /\ werr[w] # Nil
BeforeMetaRename(w) ==
    \/ pc[w] = "w_remove" /\ werr[w] = Nil
    \/ pc[w] \in {"m_open", "m_write", "m_rename", "m_remove"}

\* No other writer has ever been given w's ActionID.
FirstWrite(w) == \A x \in Writers \ {w} : ~SameKey(x, w)

\* C17: a first write of an ActionID that stops at a step before the body
\* rename leaves no file at the final body path and none at the final .meta
\* path, and check is a miss; one that stops after the body rename and
\* before the metadata rename leaves check a miss.
C17_CrashAtomicity ==
    \A w \in Writers : FirstWrite(w) =>
        /\ BeforeBodyRename(w) =>
              /\ ~Exists(actionIDToPath(args[w].ActionID))
              /\ ~Exists(metadataPath(args[w].ActionID))
              /\ ~check(args[w].ActionID).hit
        /\ BeforeMetaRename(w) =>
              /\ ~Exists(metadataPath(args[w].ActionID))
              /\ ~check(args[w].ActionID).hit

\* A first write has its body at the final path and its metadata written to
\* the temp file but not yet renamed.
C17_Witness ==
    \E w \in Writers :
        /\ FirstWrite(w)
        /\ pc[w] = "m_rename"
        /\ Exists(actionIDToPath(args[w].ActionID))
        /\ Exists(metaTmpPath(args[w].ActionID))
        /\ Content(metaTmpPath(args[w].ActionID)) = FormatMeta(Meta(w))
        /\ ~check(args[w].ActionID).hit

\* C19: when write succeeded (body written and renamed) and writeMetadata
\* failed, writeWithMetadata returns the final body path and a nil error, so
\* does DoWithLock, and the file at that path holds the body of the call
\* (no other Put of the ActionID running beside it).
C19_MetadataFailureSwallowed ==
    \A w \in Writers :
        (pc[w] \in {"dl_ret", "done"} /\ werr[w] = Nil /\ merr[w] # Nil) =>
            /\ fnret[w] = [v |-> actionIDToPath(args[w].ActionID), err |-> Nil]
            /\ Returned(w) => ret[w] = fnret[w]
            /\ Undisturbed(w) =>
                  BodyAt(fnret[w].v) = [exists |-> TRUE, content |-> args[w].Body]

\* A Put whose metadata rename failed has returned its path and no error,
\* and check on its ActionID is a miss.
C19_Witness ==
    \E w \in Writers :
        /\ Returned(w)
        /\ Undisturbed(w)
        /\ werr[w] = Nil
        /\ merr[w] = "rename metadata"
        /\ ret[w] = [v |-> actionIDToPath(args[w].ActionID), err |-> Nil]
        /\ BodyAt(ret[w].v) = [exists |-> TRUE, content |-> args[w].Body]
        /\ ~check(args[w].ActionID).hit

\* C20 as claimed: two writers that run writeWithMetadata for the same
\* ActionID with identical bytes under NoOpGroup, no system call failing for
\* a reason of its own, both return without error; the file at the final
\* body path is at every moment absent or the complete body; and after both
\* have returned check is a hit and the file is the complete body.
C20_UnlockedIdenticalWrites ==
    (/\ group = "NoOp"
     /\ faults = 0
     /\ \A x, y \in Writers : pc[x] # "idle" /\ args[x] = args[y]) =>
        \A w \in Writers :
            /\ pc[w] \in {"dl_ret", "done"} => fnret[w].err = Nil
            /\ BodyAt(actionIDToPath(args[w].ActionID))
                  \in {NoBody, [exists |-> TRUE, content |-> args[w].Body]}
            /\ (\A x \in Writers : Returned(x)) =>
                  /\ check(args[w].ActionID).hit
                  /\ BodyAt(actionIDToPath(args[w].ActionID))
                        = [exists |-> TRUE, content |-> args[w].Body]

\* The content of a .meta file is the three lines writeMetadata writes:
\* outputID with hex digits, size with a number, time with a number.
WellFormedMeta(c) ==
    /\ Len(c) = 3
    /\ c[1].k = "outputID:" /\ HexDecode(c[1].v).err = Nil
    /\ c[2].k = "size:" /\ Len(c[2].v) = 1
    /\ c[3].k = "time:" /\ Len(c[3].v) = 1

\* The .meta file of the ActionID is absent or is not a well-formed record.
Untrusted(a) ==
    ~Exists(metadataPath(a)) \/ ~WellFormedMeta(Content(metadataPath(a)))

\* C18 as claimed: on a cache directory that no writer changes, a check of
\* an ActionID whose .meta file is absent (as when it was never written),
\* could not be read, or is not a well-formed record returns a miss, whether
\* or not the body file exists.
C18_UntrustedMetadataIsMiss ==
    \A r \in Readers :
        /\ (pc[r] # "idle" /\ Untrusted(args[r].ActionID)) => res[r] = Miss
        /\ (pc[r] # "idle" /\ faults > 0) => res[r] = Miss

\* ------------------------------------------------------------------------
\* Properties of the protocol engine
\* ------------------------------------------------------------------------

\* The number of responses written after the capabilities line.
Responded == IF out = <<>> THEN 0 ELSE Len(out) - 1

\* The errors ReadRequest returns for a line it cannot decode.
DecodeErrors == {"unmarshal request", "unmarshal body", "decode base64"}

\* C7: every request read and dispatched gets exactly one response, with the
\* ID of the request, written before the next inbound line is scanned, so
\* that the IDs of the responses after the capabilities line are the IDs of
\* the requests in the order read. At most one request is unanswered, the
\* one being handled; Run returns nil only with all requests answered, and
\* a request stays unanswered only when writing its response failed, on
\* which Run returns that error.
C7_OneResponseInOrder ==
    /\ Responded <= Len(reqs)
    /\ Len(reqs) <= Responded + 1
    /\ \A i \in 1..Responded : WireID(out[i + 1]) = reqs[i]
    /\ epc \in {"read", "body"} => Responded = Len(reqs)
    /\ (epc = "exit" /\ runRet # "handle request") => Responded = Len(reqs)
    /\ (epc = "exit" /\ runRet = "handle request") => Len(reqs) = Responded + 1

\* Two requests with different IDs have been answered in order and the
\* engine is about to read again.
C7_Witness ==
    /\ epc = "read"
    /\ Len(reqs) = 2
    /\ reqs[1] # reqs[2]
    /\ Len(out) = 3
    /\ WireID(out[2]) = reqs[1]
    /\ WireID(out[3]) = reqs[2]

\* C8: Run writes one capabilities response before it scans any inbound
\* line: the first outbound line has ID 0 and KnownCommands [put, get,
\* close], no other outbound line has KnownCommands, and when the
\* capabilities line cannot be written Run returns without scanning.
C8_CapabilitiesFirst ==
    /\ (nread > 0 \/ epc \in {"read", "body", "handle", "respond"}) => out # <<>>
    /\ out # <<>> =>
          /\ WireID(out[1]) = 0
          /\ WireKnownCommands(out[1]) = <<CmdPut, CmdGet, CmdClose>>
    /\ \A i \in 2..Len(out) : WireKnownCommands(out[i]) = <<>>
    /\ out = <<>> => epc \in {"start", "exit"} /\ nread = 0 /\ calls = <<>>

\* Lines have been scanned and a request answered after the capabilities line.
C8_Witness ==
    /\ nread > 1
    /\ Len(out) > 1
    /\ WireKnownCommands(out[1]) = <<CmdPut, CmdGet, CmdClose>>

\* C9: the error of a Backend call goes into the Err field of the response
\* to the request that made the call; and writing a response that has an Err
\* does not make Run return an error: after a put or a get the engine reads
\* on, after a close Run returns nil.
C9_BackendErrorIsolated ==
    /\ [](\A k \in 1..Len(calls) : calls[k].err # Nil =>
             /\ (epc = "respond" /\ calls[k].n = Len(reqs)) => resp.Err = calls[k].err
             /\ Responded >= calls[k].n =>
                   /\ WireErr(out[calls[k].n + 1]) = calls[k].err
                   /\ WireID(out[calls[k].n + 1]) = reqs[calls[k].n]
             /\ runRet \in {"running", Nil, "read request", "read body line",
                            "handle request"} \cup DecodeErrors)
    /\ [][(epc = "respond" /\ calls # <<>> /\ calls[Len(calls)].n = Len(reqs)
           /\ calls[Len(calls)].err # Nil /\ out' # out) =>
             IF req.Command = CmdClose
             THEN epc' = "exit" /\ runRet' = Nil
             ELSE epc' = "read" /\ runRet' = "running"]_vars

\* A put or a get failed in the Backend, its response carries the error, and
\* a later request has been served.
C9_Witness ==
    \E k \in 1..Len(calls) :
        /\ calls[k].err # Nil
        /\ calls[k].op \in {"Put", "Get"}
        /\ Responded > calls[k].n
        /\ WireErr(out[calls[k].n + 1]) = calls[k].err
        /\ WireErr(out[calls[k].n + 2]) = ""

\* A line that is not valid JSON, where a request is expected.
BadRequestLine(l) == l.kind = "garbage"

\* A line that is not a JSON string literal, or a string literal whose text
\* is not base64, where a body is expected.
BadBodyLine(l) == l.kind \in {"garbage", "object", "null"} \/ (l.kind = "string" /\ ~l.wf)

\* C10: a decode failure is fatal. When the line scanned for a request is not
\* valid JSON, or the line scanned for a body is not a JSON string literal
\* or its text is not base64, Run returns an error, no response is written,
\* the Backend is not called, and nothing is scanned afterwards.
C10_DecodeFailureFatal ==
    [][/\ (epc = "read" /\ nread' = nread + 1 /\ BadRequestLine(line')) =>
             /\ epc' = "exit"
             /\ runRet' \in DecodeErrors
             /\ UNCHANGED <<out, calls, reqs>>
       /\ (epc = "body" /\ nread' = nread + 1 /\ BadBodyLine(line')) =>
             /\ epc' = "exit"
             /\ runRet' \in DecodeErrors
             /\ UNCHANGED <<out, calls, reqs>>
       /\ (epc = "exit" /\ runRet \in DecodeErrors) => UNCHANGED vars]_vars


KnownCommands == {CmdPut, CmdGet, CmdClose}

\* The last outbound line.
LastOut(o) == o[Len(o)]

\* C11 as claimed: a request whose Command is not put, get or close ends the
\* session with an error: once it has been read the engine never reads
\* again, and Run returns an error.
C11_UnknownCommandFatal ==
    [][(epc \in {"handle", "respond"} /\ req.Command \notin KnownCommands) =>
          /\ epc' # "read"
          /\ epc' = "exit" => runRet' \notin {Nil, "running"}]_vars

\* C11 as the code has it: a request whose Command is not put, get or close
\* calls no Backend operation and is answered with a response that has the
\* request's ID and the Err "unknown command"; once that response is
\* written the engine reads the next request and Run has not returned.
C11_UnknownCommandAnswered ==
    [][/\ (epc = "handle" /\ req.Command \notin KnownCommands) =>
             /\ calls' = calls
             /\ resp'.ID = req.ID
             /\ resp'.Err = "unknown command"
             /\ epc' = "respond"
       /\ (epc = "respond" /\ req.Command \notin KnownCommands /\ out' # out) =>
             /\ WireErr(LastOut(out')) = "unknown command"
             /\ WireID(LastOut(out')) = req.ID
             /\ epc' = "read"
             /\ runRet' = "running"]_vars

\* A request with an unknown command was answered and the request after it
\* was served by the Backend.
C11_Witness ==
    /\ Len(out) = 3
    /\ WireErr(out[2]) = "unknown command"
    /\ calls # <<>>
    /\ calls[1].n = 2
    /\ WireErr(out[3]) = ""

\* The end of the stream came while ReadRequest waited for the body line of
\* a put header.
EOFBeforeBody ==
    /\ epc = "exit"
    /\ scan = "eof"
    /\ req.Command = CmdPut
    /\ req.BodySize > 0
    /\ ~req.Body.present

\* C12 as claimed: when the stream ends after a put header with BodySize > 0
\* and before its body line, Run returns an error.
C12_MissingBodyFatal ==
    EOFBeforeBody => runRet \notin {Nil, "running"}

\* C12 as the code has it: when the stream ends after a put header with
\* BodySize > 0 and before its body line, Run returns nil as for any end of
\* stream; the put is not dispatched: every request dispatched before has
\* its response and the Backend was not called for the put.
C12_MissingBodyCleanExit ==
    EOFBeforeBody =>
        /\ runRet = Nil
        /\ Responded = Len(reqs)
        /\ \A k \in 1..Len(calls) : calls[k].n <= Responded

\* The stream ended before the body of a put that followed an answered request.
C12_Witness ==
    /\ EOFBeforeBody
    /\ runRet = Nil
    /\ Len(reqs) = 1
    /\ Len(out) = 2


\* C13 as claimed: every put with BodySize > 0 that reaches the Backend has
\* a body of exactly BodySize bytes.
C13_BodyOfDeclaredSize ==
    \A k \in 1..Len(calls) :
        (calls[k].op = "Put" /\ calls[k].BodySize > 0) =>
            /\ calls[k].Body.present
            /\ Len(calls[k].Body.bytes) = calls[k].BodySize

\* C14: once the response to a close request is written, whatever
\* Backend.Close returned, Run returns nil; the close is the last request
\* read and the last Backend call, its response the last line written, and
\* after Run has returned nothing changes any more, whatever the stream
\* still holds.
C14_ClosedAbsorbing ==
    /\ [](\A k \in 1..Len(calls) :
             (calls[k].op = "Close" /\ Responded >= calls[k].n) =>
                 /\ epc = "exit"
                 /\ runRet = Nil
                 /\ k = Len(calls)
                 /\ calls[k].n = Len(reqs)
                 /\ Responded = Len(reqs))
    /\ [][/\ (epc = "respond" /\ req.Command = CmdClose /\ out' # out) =>
                (epc' = "exit" /\ runRet' = Nil)
          /\ (epc = "exit" /\ req.Command = CmdClose /\ runRet = Nil) =>
                UNCHANGED vars]_vars

\* A close whose Backend.Close failed was answered after an earlier request,
\* Run returned nil, and the stream was not at its end.
C14_Witness ==
    /\ epc = "exit"
    /\ runRet = Nil
    /\ scan = "ok"
    /\ nread < MaxLines
    /\ Len(reqs) = 2
    /\ Responded = 2
    /\ calls # <<>>
    /\ calls[Len(calls)].op = "Close"
    /\ calls[Len(calls)].err # Nil
    /\ WireErr(out[3]) = calls[Len(calls)].err

\* C15: the end of the stream where a request line is expected, also after
\* blank lines only, makes Run return nil, with every request read answered
\* and no response beyond those.
C15_CleanEndOfStream ==
    (epc = "exit" /\ scan = "eof" /\ ~EOFBeforeBody) =>
        /\ runRet = Nil
        /\ Responded = Len(reqs)
        /\ \A i \in 1..Responded : WireID(out[i + 1]) = reqs[i]

\* The stream ended after an answered request and a blank line.
C15_Witness ==
    /\ epc = "exit"
    /\ scan = "eof"
    /\ ~EOFBeforeBody
    /\ line.kind = "blank"
    /\ Len(reqs) = 1
    /\ Len(out) = 2
    /\ runRet = Nil

\* C16: when Backend.Get returns a miss and no error, the response has Miss
\* and no Err, OutputID, DiskPath, Size or Time, whatever the Backend
\* returned with the miss; when it returns a hit, the response has no Miss
\* and the OutputID, DiskPath, Size and Time the Backend returned.
C16_MissIsNotAnError ==
    \A k \in 1..Len(calls) :
        (calls[k].op = "Get" /\ calls[k].got.err = Nil /\ Responded >= calls[k].n) =>
            LET l == out[calls[k].n + 1]
                g == calls[k].got
            IN IF g.miss
               THEN /\ WireField(l, "Miss") = TRUE
                    /\ l.present \subseteq {"ID", "Miss"}
               ELSE /\ WireField(l, "Miss") = FALSE
                    /\ WireField(l, "Err") = ""
                    /\ WireField(l, "OutputID") = g.outputID
                    /\ WireField(l, "DiskPath") = g.diskPath
                    /\ WireField(l, "Size") = g.size
                    /\ WireField(l, "Time") = g.putTime

\* A Get that returned a miss together with values was answered, and so was
\* a Get that returned a hit.
C16_Witness ==
    \E j, k \in 1..Len(calls) :
        /\ calls[j].op = "Get" /\ calls[j].got.miss /\ calls[j].got.outputID # <<>>
        /\ calls[k].op = "Get" /\ ~calls[k].got.miss /\ calls[k].got.err = Nil
        /\ Responded >= calls[j].n
        /\ Responded >= calls[k].n

\* ------------------------------------------------------------------------
\* Properties of the Debug decorator
\* ------------------------------------------------------------------------

\* C21: after any sequence of calls on Debug, the wrapped backend has
\* received exactly the calls made on Debug, one for one, in order, with the
\* same operation and arguments (so its state is what it would be without the
\* decorator), and Debug has returned exactly what the wrapped backend
\* returned, the values beside an error included.
C21_DebugEquivalent ==
    /\ bcalls = dcalls
    /\ drets = brets

\* Two calls have been made on Debug, a Put among them for which the
\* wrapped backend returned a path beside an error, and Debug returned both.
C21_Witness ==
    /\ Len(dcalls) = MaxCalls
    /\ \E i \in 1..Len(dcalls) :
          /\ dcalls[i].op = "Put"
          /\ brets[i].err # Nil
          /\ brets[i].diskPath # ""
          /\ drets[i] = brets[i]

\* ------------------------------------------------------------------------
\* Properties of MemLock under fair scheduling
\* ------------------------------------------------------------------------

\* C22: under fair scheduling every DoWithLock call on MemLock that has
\* begun eventually returns, having run its function exactly once, and what
\* it returns (the error included) is what its function returned: the lock
\* acquisition adds no error of its own and never blocks for ever.
C22_EveryCallReturns ==
    /\ \A w \in Writers : (pc[w] = "ml_lock") ~> Returned(w)
    /\ [](\A w \in Writers : Returned(w) => (runs[w] = 1 /\ ret[w] = fnret[w]))

\* A caller is blocked on the mutex of its key, which another caller holds
\* while it runs its function.
C22_Witness ==
    \E w, x \in Writers :
        /\ w # x
        /\ group = "MemLock"
        /\ pc[w] = "kl_lock"
        /\ holder[lk[w]] = x
        /\ InFn(x)

\* ------------------------------------------------------------------------
\* Blank lines on input
\* ------------------------------------------------------------------------

\* C23: a scan that reads a blank line (empty, or white space only), where
\* a request line is expected or where the body line of a put is expected,
\* changes nothing but the position in the input: the engine waits for the
\* same line as before, with the same request under construction, the same
\* requests dispatched, the same Backend calls made and the same responses
\* written, and Run has not returned because of it.
C23_BlankLinesSkipped ==
    [][(nread' = nread + 1 /\ line'.kind \in {"blank", "spaces"}) =>
          UNCHANGED <<epc, req, resp, out, calls, reqs, runRet, scan>>]_vars

\* A white-space-only line has been scanned between the header of a put and
\* its body line, and the engine still waits for the body line.
C23_Witness ==
    /\ epc = "body"
    /\ runRet = "running"
    /\ nread > 1
    /\ line = SpacesLine
    /\ req.Command = CmdPut
    /\ req.BodySize > 0

\* ------------------------------------------------------------------------
\* Properties of the latency tracker
\* ------------------------------------------------------------------------

\* C24: when GetStats(label) is about to return (called by a caller or by
\* GetAllStats), it returns an error if and only if no Record call with that
\* label has returned, and otherwise a Stats of that label whose Count is
\* the number of Record calls with that label that have returned (those
\* made by RecordFunc and RecordFuncWithResult included).
C24_CountIsRecordCalls ==
    \A t \in MThreads :
        (mpc[t] = "unlock" /\ (mloc[t].op = "GetStats" \/ mloc[t].inner)) =>
            /\ (mloc[t].err # Nil) <=> (nrec[mloc[t].label] = 0)
            /\ mloc[t].err = Nil =>
                  mloc[t].stat = [Operation |-> mloc[t].label,
                                  Count |-> nrec[mloc[t].label]]

\* GetStats is about to return a Count of more than one for a label, while
\* it is about to fail for no label: both cases of C24 happen.
C24_Witness ==
    \E t, x \in MThreads :
        /\ mpc[t] = "unlock"
        /\ mloc[t].op = "GetStats"
        /\ mloc[t].err = Nil
        /\ mloc[t].stat.Count > 1
        /\ mret[x].op = "GetStats"
        /\ mret[x].err = "no data"

\* C25: RecordFunc and RecordFuncWithResult have run fn at most once at any
\* time, and when they have returned they have run it exactly once,
\* returned the error fn returned (and its result), and added exactly one
\* sample, under the label given, whether fn returned an error or not.
C25_RecordFuncOnce ==
    \A t \in MThreads :
        /\ mloc[t].fnruns <= 1
        /\ mret[t].op \in {"RecordFunc", "RecordFuncWithResult"} =>
              /\ mret[t].fnruns = 1
              /\ mret[t].err = mret[t].fnerr
              /\ mret[t].val = mret[t].result
              /\ mret[t].added = <<mret[t].label>>

\* RecordFuncWithResult has returned the result and the error of a fn that
\* failed, and the sketch of its label has its sample.
C25_Witness ==
    \E t \in MThreads :
        /\ mret[t].op = "RecordFuncWithResult"
        /\ mret[t].fnerr # Nil
        /\ mret[t].err = mret[t].fnerr
        /\ mret[t].val # 0
        /\ mret[t].added = <<mret[t].label>>
        /\ sketches[mret[t].label].count > 0

\* C28: a caller that is about to read or write the map or a sketch (the
\* lookup, the creation, the Add, the reads of GetStats and GetQuantile, the
\* len and each step of the range in GetAllStats) holds the mutex, so no
\* two callers are there at the same time; a caller that has returned, or
\* that has not yet locked, does not hold it.
C28_SerializedByMutex ==
    \A t \in MThreads :
        /\ mpc[t] \in {"lookup", "create", "add", "read", "range0", "range"} => mu = t
        /\ mpc[t] \in {"idle", "fn", "fnret", "lock", "relock"} => mu # t

\* GetAllStats has released the mutex in its loop and waits to take it
\* again, while another caller holds it and is about to store a new sketch.
C28_Witness ==
    \E t, x \in MThreads :
        /\ mloc[t].op = "GetAllStats"
        /\ mpc[t] = "relock"
        /\ mpc[x] = "create"
        /\ mu = x

\* ------------------------------------------------------------------------
\* The files of the local store under failures
\* ------------------------------------------------------------------------

\* C26: in every state of any interleaving of writeWithMetadata calls, on a
\* cache directory that was empty at startup, an ActionID whose final .meta
\* file exists has its final body file, and a reader that got a hit from
\* check found a file at the returned path.
C26_MetaImpliesBody ==
    /\ \A a \in ActionIDs : Exists(metadataPath(a)) => Exists(actionIDToPath(a))
    /\ \A r \in Readers : (pc[r] = "done" /\ res[r].hit) => rbody[r].exists

\* An ActionID has its metadata installed while a later Put of it has failed
\* in write, and a reader has had a hit and read a body.
C26_Witness ==
    \E w \in Writers, r \in Readers :
        /\ Returned(w)
        /\ ret[w].err # Nil
        /\ Exists(metadataPath(args[w].ActionID))
        /\ Exists(actionIDToPath(args[w].ActionID))
        /\ pc[r] = "done"
        /\ res[r].hit
        /\ rbody[r].exists

\* C27 as claimed: when write or writeMetadata has returned an error, in a
\* Put that is the only one ever made for its ActionID, no file is left at
\* <final>.tmp and none at <final>.meta.tmp.
C27_NoTempLeftBehind ==
    \A w \in Writers :
        (FirstWrite(w) /\ pc[w] \in {"dl_ret", "done"} /\ (werr[w] # Nil \/ merr[w] # Nil)) =>
            /\ ~Exists(bodyTmpPath(args[w].ActionID))
            /\ ~Exists(metaTmpPath(args[w].ActionID))

\* C30: when writeWithMetadata has returned an error, every other Put of
\* its ActionID having returned before it began, the files at the final
\* body path and at the final .meta path are what they were when it began,
\* content included.
C30_FailedWriteChangesNothing ==
    \A w \in Writers :
        (pc[w] \in {"dl_ret", "done"} /\ fnret[w].err # Nil /\ Undisturbed(w)) =>
            Snapshot(args[w].ActionID) = before[w]

\* A Put has failed after an earlier Put of the same ActionID with another
\* body and OutputID had installed its entry: check still is a hit with the
\* earlier OutputID and Size, and the file at the final path holds the
\* earlier body.
C30_Witness ==
    \E w, x \in Writers :
        /\ Returned(w)
        /\ ret[w].err # Nil
        /\ Undisturbed(w)
        /\ x \in prior[w]
        /\ SameKey(x, w)
        /\ args[x].Body # args[w].Body
        /\ args[x].OutputID # args[w].OutputID
        /\ before[w].meta.exists
        /\ check(args[w].ActionID) = [hit |-> TRUE, meta |-> ParseMeta(FormatMeta(Meta(x))).meta]
        /\ BodyAt(actionIDToPath(args[w].ActionID)) = [exists |-> TRUE, content |-> args[x].Body]

\* ------------------------------------------------------------------------
\* Properties of the path function
\* ------------------------------------------------------------------------

\* C29 as claimed: for every ActionID, the empty one included,
\* actionIDToPath returns a path in one of the 256 shard directories (for an
\* ActionID that has a first byte, the one named by its two hex digits),
\* with the format version followed by the hex ActionID as file name, the
\* .meta path being that path with ".meta" appended; two distinct ActionIDs
\* get distinct body paths and distinct .meta paths.
C29_PathInShard ==
    pout # <<>> =>
        /\ \A i \in 1..2 :
              /\ ~pout[i].panic
              /\ pout[i].path.dir \in ShardDirs
              /\ pin[i] # <<>> => pout[i].path.dir = HexEncode(<<pin[i][1]>>)
              /\ pout[i].path.ver = fileFormatVersion
              /\ pout[i].path.hex = HexEncode(pin[i])
              /\ pout[i].path.ext = <<>>
              /\ pout[i].meta = Suffixed(pout[i].path, ".meta")
        /\ pin[1] # pin[2] =>
              /\ pout[1].path # pout[2].path
              /\ pout[1].meta # pout[2].meta

\* ------------------------------------------------------------------------
\* Backend.Close within a session
\* ------------------------------------------------------------------------

\* C31: a call of Backend.Close is the last Backend call of the session (so
\* there is at most one, and no Put or Get after it), it is made while the
\* request being handled is a close request, and when the stream has ended
\* without a close request Backend.Close has not been called.
C31_CloseOnceAtClose ==
    /\ \A k \in 1..Len(calls) :
          calls[k].op = "Close" =>
              /\ k = Len(calls)
              /\ req.Command = CmdClose
              /\ calls[k].n = Len(reqs)
              /\ epc \in {"respond", "exit"}
    /\ scan = "eof" => \A k \in 1..Len(calls) : calls[k].op # "Close"

\* A put, a get and a close have been handled in one session: Run has
\* returned and Backend.Close is the third and last Backend call.
C31_Witness ==
    /\ epc = "exit"
    /\ runRet = Nil
    /\ Len(calls) > 2
    /\ calls[1].op = "Put"
    /\ calls[2].op = "Get"
    /\ calls[Len(calls)].op = "Close"

\* ------------------------------------------------------------------------
\* Body framing
\* ------------------------------------------------------------------------

\* C33: the engine waits for a body line only for a put with BodySize > 0;
\* a request that is handled has a body exactly when it is such a put, and
\* so has every Backend.Put call. A request line that unmarshals is followed
\* by the wait for a body line when it is a put with BodySize > 0 and is
\* dispatched at once, with no further line read, otherwise; after the
\* response to a request other than close the next line is read as a
\* request.
C33_BodyFraming ==
    /\ [](/\ epc = "body" => (req.Command = CmdPut /\ req.BodySize > 0)
          /\ epc \in {"handle", "respond"} =>
                (req.Body.present <=> (req.Command = CmdPut /\ req.BodySize > 0))
          /\ \A k \in 1..Len(calls) :
                calls[k].op = "Put" => (calls[k].Body.present <=> calls[k].BodySize > 0))
    /\ [][/\ (epc = "read" /\ nread' = nread + 1
              /\ line'.kind \notin {"blank", "spaces"}
              /\ UnmarshalRequest(line').err = Nil) =>
                IF UnmarshalRequest(line').req.Command = CmdPut
                   /\ UnmarshalRequest(line').req.BodySize > 0
                THEN epc' = "body" /\ reqs' = reqs
                ELSE /\ epc' = "handle"
                     /\ req' = UnmarshalRequest(line').req
                     /\ reqs' = Append(reqs, req'.ID)
          /\ (epc = "respond" /\ out' # out /\ req.Command # CmdClose) => epc' = "read"]_vars

\* Two lines have been read and both were requests: a put with BodySize 0,
\* which reached Backend.Put without a body, and then a get that declares a
\* BodySize, which is being handled without a body line read.
C33_Witness ==
    /\ nread = 2
    /\ Len(reqs) = 2
    /\ Len(calls) = 2
    /\ calls[1].op = "Put"
    /\ calls[1].BodySize = 0
    /\ ~calls[1].Body.present
    /\ calls[2].op = "Get"
    /\ req.Command = CmdGet
    /\ req.BodySize > 0
    /\ ~req.Body.present

\* ------------------------------------------------------------------------
\* Independence of MemLock keys
\* ------------------------------------------------------------------------

\* C32: while a caller of DoWithLock runs its function, waits for the mutex
\* of its key or is about to return, it does not hold the map-wide lock, and
\* a caller with a different key that is anywhere between s.Lock() and
\* lock.Lock() can take its next step: it is never made to wait by the
\* former, however long the former stays where it is.
C32_KeysIndependent ==
    \A w, x \in Writers :
        (w # x /\ ~SameKey(w, x) /\ (InFn(x) \/ pc[x] \in {"kl_lock", "dl_ret"})) =>
            /\ mapMutex # x
            /\ pc[w] \in {"ml_lock", "ml_lookup", "ml_create", "ml_unlock", "kl_lock"} =>
                  ENABLED LockStep(w)

\* Two callers with different keys run their functions at the same time,
\* each holding the mutex of its key.
C32_Witness ==
    \E w, x \in Writers :
        /\ w # x
        /\ group = "MemLock"
        /\ ~SameKey(w, x)
        /\ InFn(w)
        /\ InFn(x)
        /\ holder[lk[w]] = w
        /\ holder[lk[x]] = x

====
